---------------------------- MODULE Spec2Model ----------------------------
(***************************************************************************)
(* Model of the DBC table reader and of the extraction helpers of the     *)
(* fika-guild.xyz scripts.                                                 *)
(*                                                                         *)
(*   - DBCReader (read_file / get_string) as written in                    *)
(*     scripts/extract_spells.py (strict unpack, cached get_string),        *)
(*     scripts/extrac_game_data.py and scripts/explore_spells_proper.py    *)
(*     (truncating loop, uncached get_string);                             *)
(*   - get_spell_loc_indices (scripts/extract_spells.py);                   *)
(*   - detect_locale_offset (scripts/extract_spells.py);                    *)
(*   - the lookup builders, parse_description, extract_spell and main       *)
(*     (scripts/extract_spells.py).                                         *)
(*                                                                         *)
(* A file is a sequence of bytes (0..255).  A Python str is a sequence of  *)
(* code points; the empty sequence is "".                                  *)
(***************************************************************************)
EXTENDS Integers, Sequences, FiniteSets, TLC

VARIABLES
    script,        \* which script's DBCReader is running
    file,          \* the bytes of the table file on disk
    pc,            \* "new" (constructor not run), "loaded", "raised"
    error,         \* the exception that left the constructor, or "none"
    records,       \* self.records
    string_block,  \* self.string_block
    field_count,   \* self.field_count
    string_cache,  \* self._string_cache (extract_spells.py only)
    ret,           \* the last get_string call: [offset, result], or NoRet
    xml,           \* the definition document: its Table elements, in order
    xpc,           \* get_spell_loc_indices: "start", "loop", "returned", "raised"
    xpos,          \* number of Field elements already processed
    index,         \* the running column index
    loc_map,       \* loc_map: name -> column index
    loc_index,     \* detect_locale_offset's loc_index argument
    lpc,           \* detect_locale_offset: "idle", "scan", "done"
    lrow,          \* number of sampled records already scored
    scores,        \* scores[off + 1] for off in 0..7
    best_off,      \* the returned slot
    confidence,    \* <<numerator, denominator>> of the printed percentage
    disk,          \* main: the files of DBC_PATH, table name -> bytes
    mpc,           \* main: the statement it is at, "done" or "raised"
    merror,        \* main: the exception that ended the run, or "none"
    loaded,        \* main: the tables a DBCReader was constructed on, in order
    icon_map,      \* icon_map
    duration_map,  \* duration_map
    cast_time_map, \* cast_time_map
    range_map,     \* range_map
    LOCALE_OFFSET, \* the global LOCALE_OFFSET
    spells,        \* spells
    skipped,       \* skipped
    mrow,          \* number of records main's loop has passed to extract_spell
    desc,          \* parse_description: the desc argument
    duration_ms,   \* parse_description: the duration_ms argument
    dpc,           \* parse_description: "idle", "called", "returned"
    dret,          \* parse_description: the returned str
    gpc,           \* extrac_game_data.extract_spells: "idle", "loop", "returned", "raised"
    grow,          \* number of records its loop has been through
    gspells,       \* its spells dict: str(spell_id) -> entry
    no_name_count,     \* no_name_count
    non_english_count, \* non_english_count
    tpc,           \* get_string callers: caller -> the statement it is at
    toffset,       \* caller -> the offset argument of its call
    tresult,       \* caller -> its local variable result
    tret,          \* caller -> its last returned [offset, result], or NoRet
    tcalls,        \* caller -> number of calls it has made
    stores,        \* number of assignments to self._string_cache[offset]
    bpc,           \* lookup builders: table -> "new", "loop", "returned", "raised"
    brecords,      \* table -> dbc.records of the builder's own reader
    bheap,         \* table -> dbc.string_block of the builder's own reader
    bpos,          \* table -> number of records the builder's loop has been through
    bmap,          \* table -> the map the builder is filling
    blp_files,     \* batch_convert: number of found files, the files are 1..blp_files
    unreadable,    \* the found files whose conversion raises an Exception
    ppc,           \* batch_convert: "submit", "collect", "report", "done"
    pnext,         \* number of files submitted, then number of results collected
    future,        \* file -> "none", "queued", "running", "True", "False"
    submits,       \* file -> number of times it was submitted
    results,       \* results
    successful,    \* successful
    spells_json,   \* update_spell_data: spells.json, [exists, data]
    icons_json,    \* icon_mapping.json, [exists, data]
    spc,           \* update_spell_data: "idle", "loop", "raised"
    spos,          \* number of records its loop has been through
    spells_data,   \* spells_data
    icon_mapping,  \* icon_mapping
    new_count,     \* new_count
    updated_count, \* updated_count
    sruns,         \* number of finished runs of update_spell_data
    spells_before  \* spells.json as it was when the last run started

readerVars == <<script, file, pc, error, records, string_block, field_count,
                string_cache, ret>>
schemaVars == <<xml, xpc, xpos, index, loc_map>>
localeVars == <<loc_index, lpc, lrow, scores, best_off, confidence>>
mainVars == <<disk, mpc, merror, loaded, icon_map, duration_map, cast_time_map,
              range_map, LOCALE_OFFSET, spells, skipped, mrow>>
descVars == <<desc, duration_ms, dpc, dret>>
gameVars == <<gpc, grow, gspells, no_name_count, non_english_count>>
callerVars == <<tpc, toffset, tresult, tret, tcalls, stores>>
builderVars == <<bpc, brecords, bheap, bpos, bmap>>
poolVars == <<blp_files, unreadable, ppc, pnext, future, submits, results, successful>>
smartVars == <<spells_json, icons_json, spc, spos, spells_data, icon_mapping, new_count,
               updated_count, sruns, spells_before>>
laterVars == <<gameVars, callerVars, builderVars, poolVars, smartVars>>
\* what the steps of extrac_game_data.extract_spells leave alone
notGameVars == <<readerVars, schemaVars, localeVars, mainVars, descVars, callerVars,
                 builderVars, poolVars, smartVars>>
\* what the steps of the concurrent get_string callers leave alone
notCallerVars == <<schemaVars, localeVars, mainVars, descVars, gameVars, builderVars,
                   poolVars, smartVars>>
\* what the steps of the lookup builders leave alone
notBuilderVars == <<readerVars, schemaVars, localeVars, mainVars, descVars, gameVars,
                    callerVars, poolVars, smartVars>>
\* what the steps of update_spell_data leave alone
notSmartVars == <<schemaVars, localeVars, mainVars, descVars, gameVars, callerVars,
                  builderVars, poolVars>>
\* what the steps of batch_convert and its workers leave alone
notPoolVars == <<readerVars, schemaVars, localeVars, mainVars, descVars, gameVars,
                 callerVars, builderVars, smartVars>>
vars == <<readerVars, schemaVars, localeVars, mainVars, descVars, laterVars>>

-----------------------------------------------------------------------------
(* Bounds of the model *)

\* rows * fields of the generated tables is at most MaxWords
MaxWords == 2
\* length of the generated string heaps
MaxHeap == 3

-----------------------------------------------------------------------------
(* Bytes, words and strings *)

Min(a, b) == IF a < b THEN a ELSE b

\* f.read(k) at 0-based position p: the bytes that are there, at most k
Read(f, p, k) == SubSeq(f, p + 1, Min(p + k, Len(f)))

\* struct.unpack('<I', b)[0] for a 4-byte b
UnpackU32(b) == b[1] + 256 * b[2] + 65536 * b[3] + 16777216 * b[4]

\* struct.pack('<I', n), used to write the input files
PackU32(n) ==
    <<n % 256, (n \div 256) % 256, (n \div 65536) % 256, (n \div 16777216) % 256>>

\* the largest integer of the model checker: words and offsets stay below 2^31
MaxInt == 32767 * 65536 + 65535

\* b'WDBC'
WDBC == <<87, 68, 66, 67>>

NoRet == [offset |-> -1, result |-> <<>>]

\* root.find(...) found no element (None)
NoTable == [Name |-> "None", Fields |-> <<>>]


\* A byte of b at 1-based position i that lies in lo..hi
InRange(b, i, lo, hi) == i <= Len(b) /\ b[i] >= lo /\ b[i] <= hi

\* bytes.decode('utf-8', errors='ignore') from 1-based position i: well-formed
\* sequences become code points, the maximal ill-formed prefix is dropped
RECURSIVE Utf8Decode(_, _)
Utf8Decode(b, i) ==
    IF i > Len(b) THEN <<>>
    ELSE LET c == b[i] IN
      IF c < 128 THEN <<c>> \o Utf8Decode(b, i + 1)
      ELSE IF c >= 194 /\ c <= 223 THEN
        IF InRange(b, i + 1, 128, 191)
        THEN <<(c - 192) * 64 + (b[i + 1] - 128)>> \o Utf8Decode(b, i + 2)
        ELSE Utf8Decode(b, i + 1)
      ELSE IF c >= 224 /\ c <= 239 THEN
        LET lo == IF c = 224 THEN 160 ELSE 128
            hi == IF c = 237 THEN 159 ELSE 191
        IN IF ~InRange(b, i + 1, lo, hi) THEN Utf8Decode(b, i + 1)
           ELSE IF ~InRange(b, i + 2, 128, 191) THEN Utf8Decode(b, i + 2)
           ELSE <<(c - 224) * 4096 + (b[i + 1] - 128) * 64 + (b[i + 2] - 128)>>
                \o Utf8Decode(b, i + 3)
      ELSE IF c >= 240 /\ c <= 244 THEN
        LET lo == IF c = 240 THEN 144 ELSE 128
            hi == IF c = 244 THEN 143 ELSE 191
        IN IF ~InRange(b, i + 1, lo, hi) THEN Utf8Decode(b, i + 1)
           ELSE IF ~InRange(b, i + 2, 128, 191) THEN Utf8Decode(b, i + 2)
           ELSE IF ~InRange(b, i + 3, 128, 191) THEN Utf8Decode(b, i + 3)
           ELSE <<(c - 240) * 262144 + (b[i + 1] - 128) * 4096
                  + (b[i + 2] - 128) * 64 + (b[i + 3] - 128)>>
                \o Utf8Decode(b, i + 4)
      ELSE Utf8Decode(b, i + 1)

\* str.encode('utf-8'): how a string is written into a heap
RECURSIVE Utf8Encode(_)
Utf8Encode(s) ==
    IF s = <<>> THEN <<>>
    ELSE LET c == Head(s) IN
      (IF c < 128 THEN <<c>>
       ELSE IF c < 2048 THEN <<192 + (c \div 64), 128 + (c % 64)>>
       ELSE IF c < 65536
         THEN <<224 + (c \div 4096), 128 + ((c \div 64) % 64), 128 + (c % 64)>>
       ELSE <<240 + (c \div 262144), 128 + ((c \div 4096) % 64),
              128 + ((c \div 64) % 64), 128 + (c % 64)>>)
      \o Utf8Encode(Tail(s))

\* bytes.find(b'\x00', off): 0-based position of the first null at or after
\* off, or -1
FindNull(b, off) ==
    IF \E e \in off..(Len(b) - 1) : b[e + 1] = 0
    THEN CHOOSE e \in off..(Len(b) - 1) :
            b[e + 1] = 0 /\ \A d \in off..(e - 1) : b[d + 1] # 0
    ELSE -1

-----------------------------------------------------------------------------
(* DBCReader: the header and the record loop *)

\* struct.unpack('<4sIIII', header) for a 20-byte header
UnpackHeader(h) ==
    [magic             |-> SubSeq(h, 1, 4),
     record_count      |-> UnpackU32(SubSeq(h, 5, 8)),
     field_count       |-> UnpackU32(SubSeq(h, 9, 12)),
     record_size       |-> UnpackU32(SubSeq(h, 13, 16)),
     string_block_size |-> UnpackU32(SubSeq(h, 17, 20))]

\* magic != b'WDBC'
BadMagicPrefixOnly(magic) == SubSeq(magic, 1, 3) # SubSeq(WDBC, 1, 3)
BadMagic(magic) == magic # WDBC

\* list(struct.unpack(f'<{field_count}I', record_data)), for a record_data of
\* 4 * field_count bytes
UnpackRecordBigEndian(record_data, fc) ==
    [j \in 1..fc |->
        LET b == SubSeq(record_data, 4 * (j - 1) + 1, 4 * j)
        IN b[4] + 256 * b[3] + 65536 * b[2] + 16777216 * b[1]]
UnpackRecord(record_data, fc) ==
    [j \in 1..fc |-> UnpackU32(SubSeq(record_data, 4 * (j - 1) + 1, 4 * j))]

\* the inner loop of the truncating readers: a field that does not fit into
\* record_data is 0
ParseRecordOffByOne(record_data, fc) ==
    [j \in 1..fc |->
        IF 4 * j + 4 <= Len(record_data)
        THEN UnpackU32(SubSeq(record_data, 4 * j + 1, 4 * j + 4))
        ELSE 0]
ParseRecord(record_data, fc) ==
    [j \in 1..fc |->
        IF 4 * (j - 1) + 4 <= Len(record_data)
        THEN UnpackU32(SubSeq(record_data, 4 * (j - 1) + 1, 4 * j))
        ELSE 0]

\* extract_spells.py: for _ in range(record_count), struct.unpack raises
\* struct.error when record_data is not 4 * field_count bytes long
RECURSIVE UnpackRecords(_, _, _, _, _, _)
UnpackRecords(f, p, n, fc, rs, acc) ==
    IF n = 0 THEN [ok |-> TRUE, records |-> acc, pos |-> p]
    ELSE LET record_data == Read(f, p, rs) IN
      IF Len(record_data) # 4 * fc
      THEN [ok |-> FALSE, records |-> acc, pos |-> p + Len(record_data)]
      ELSE UnpackRecords(f, p + Len(record_data), n - 1, fc, rs,
                         Append(acc, UnpackRecord(record_data, fc)))

\* extrac_game_data.py, explore_spells_proper.py: for i in range(record_count),
\* a record_data shorter than record_size breaks the loop
RECURSIVE TruncatingRecords(_, _, _, _, _, _)
TruncatingRecords(f, p, n, fc, rs, acc) ==
    IF n = 0 THEN [ok |-> TRUE, records |-> acc, pos |-> p]
    ELSE LET record_data == Read(f, p, rs) IN
      IF Len(record_data) # rs
      THEN [ok |-> TRUE, records |-> acc, pos |-> p + Len(record_data)]
      ELSE TruncatingRecords(f, p + Len(record_data), n - 1, fc, rs,
                             Append(acc, ParseRecord(record_data, fc)))

\* The constructor raised: no reader object exists
Raise(e, recs, fc) ==
    /\ pc' = "raised"
    /\ error' = e
    /\ records' = recs
    /\ field_count' = fc
    /\ string_block' = <<>>

\* The constructor returned
Loaded(recs, fc, heap) ==
    /\ pc' = "loaded"
    /\ error' = "none"
    /\ records' = recs
    /\ field_count' = fc
    /\ string_block' = heap

\* DBCReader._read_file of extract_spells.py
ReadFile_extract_spells ==
    /\ script = "extract_spells"
    /\ pc = "new"
    /\ LET header == Read(file, 0, 20) IN
       IF Len(header) # 20 THEN Raise("struct.error", <<>>, 0)
       ELSE LET h == UnpackHeader(header) IN
         IF BadMagic(h.magic) THEN Raise("ValueError", <<>>, h.field_count)
         ELSE LET r == UnpackRecords(file, 20, h.record_count, h.field_count,
                                     h.record_size, <<>>) IN
           IF ~r.ok THEN Raise("struct.error", r.records, h.field_count)
           ELSE Loaded(r.records, h.field_count,
                       Read(file, r.pos, h.string_block_size))
    /\ UNCHANGED <<script, file, string_cache, ret, schemaVars, localeVars, mainVars, descVars,
                   laterVars>>

\* DBCReader._read_file of extrac_game_data.py
ReadFile_extrac_game_data ==
    /\ script = "extrac_game_data"
    /\ pc = "new"
    /\ LET header == Read(file, 0, 20) IN
       IF Len(header) # 20 THEN Raise("struct.error", <<>>, 0)
       ELSE LET h == UnpackHeader(header) IN
         IF BadMagic(h.magic) THEN Raise("ValueError", <<>>, 0)
         ELSE LET r == TruncatingRecords(file, 20, h.record_count, h.field_count,
                                         h.record_size, <<>>) IN
           Loaded(r.records, h.field_count,
                  Read(file, r.pos, h.string_block_size))
    /\ UNCHANGED <<script, file, string_cache, ret, schemaVars, localeVars, mainVars, descVars,
                   laterVars>>

\* DBCReader.read_file of explore_spells_proper.py
ReadFile_explore_spells_proper ==
    /\ script = "explore_spells_proper"
    /\ pc = "new"
    /\ LET header == Read(file, 0, 20) IN
       IF Len(header) < 20 THEN Raise("ValueError", <<>>, 0)
       ELSE LET h == UnpackHeader(header) IN
         IF BadMagic(h.magic) THEN Raise("ValueError", <<>>, 0)
         ELSE LET r == TruncatingRecords(file, 20, h.record_count, h.field_count,
                                         h.record_size, <<>>) IN
           Loaded(r.records, h.field_count,
                  Read(file, r.pos, h.string_block_size))
    /\ UNCHANGED <<script, file, string_cache, ret, schemaVars, localeVars, mainVars, descVars,
                   laterVars>>

-----------------------------------------------------------------------------
(* DBCReader.get_string *)

\* string_block[offset:end].decode('utf-8', errors='ignore') behind the bounds
\* check and the search for the terminator
ResolveFromNext(heap, offset) ==
    IF offset >= Len(heap) \/ offset < 0 THEN <<>>
    ELSE LET end == FindNull(heap, offset) IN
      IF end = -1 THEN <<>>
      ELSE Utf8Decode(SubSeq(heap, offset + 2, end), 1)
ResolveNoTerminatorCheck(heap, offset) ==
    IF offset >= Len(heap) \/ offset < 0 THEN <<>>
    ELSE LET end == FindNull(heap, offset) IN
      Utf8Decode(SubSeq(heap, offset + 1, IF end = -1 THEN Len(heap) - 1 ELSE end), 1)
Resolve(heap, offset) ==
    IF offset >= Len(heap) \/ offset < 0 THEN <<>>
    ELSE LET end == FindNull(heap, offset) IN
      IF end = -1 THEN <<>>
      ELSE Utf8Decode(SubSeq(heap, offset + 1, end), 1)

\* get_string of extract_spells.py: [result, cache]; a result is cached only
\* when the offset is in the heap and a terminator follows it
CachedGetString(heap, cache, offset) ==
    IF offset \in DOMAIN cache THEN [result |-> cache[offset], cache |-> cache]
    ELSE IF offset >= Len(heap) \/ offset < 0 \/ FindNull(heap, offset) = -1
      THEN [result |-> <<>>, cache |-> cache]
      ELSE [result |-> Resolve(heap, offset),
            cache  |-> [o \in DOMAIN cache \cup {offset} |->
                          IF o = offset THEN Resolve(heap, offset) ELSE cache[o]]]

\* get_string of the running script
GetStringOf(offset) ==
    IF script = "extract_spells"
    THEN CachedGetString(string_block, string_cache, offset)
    ELSE [result |-> Resolve(string_block, offset), cache |-> string_cache]

\* dbc.get_string(offset) on a loaded reader
GetString ==
    /\ pc = "loaded"
    /\ \E offset \in 0..(MaxHeap + 1) \cup {MaxInt} :
         LET g == GetStringOf(offset) IN
           /\ ret' = [offset |-> offset, result |-> g.result]
           /\ string_cache' = g.cache
    /\ UNCHANGED <<script, file, pc, error, records, string_block, field_count,
                   schemaVars, localeVars, mainVars, descVars, laterVars>>

\* dbc.get_string(record[j]) for a record of the loaded table
GetFieldString ==
    /\ pc = "loaded"
    /\ \E i \in 1..Len(records) : \E j \in 1..Len(records[i]) :
         LET g == GetStringOf(records[i][j]) IN
           /\ ret' = [offset |-> records[i][j], result |-> g.result]
           /\ string_cache' = g.cache
    /\ UNCHANGED <<script, file, pc, error, records, string_block, field_count,
                   schemaVars, localeVars, mainVars, descVars, laterVars>>

-----------------------------------------------------------------------------
(* The table files the readers are run on *)

Scripts == {"extract_spells", "extrac_game_data", "explore_spells_proper"}

\* field values written into the generated records
Words == {0, 1, 16909060}
\* bytes of the heaps that follow records: NUL and "A"
AsciiBytes == {0, 65}
\* bytes of the heaps of the record-less tables: NUL, "A", the two bytes of U+00E9
HeapBytes == {0, 65, 195, 169}
\* b'WDBC' and a foreign tag, b'WDB2'
Tags == {WDBC, <<87, 68, 66, 50>>}
\* the header's record_size is 4 * field_count plus one of these
Pads == {-1, 0, 1}
\* bytes missing at the end of the file
Drops == {0, 1}

\* the bytes of one row: struct.pack('<I', v) of each of its values
PackRow(row) ==
    [b \in 1..(4 * Len(row)) |-> PackU32(row[((b - 1) \div 4) + 1])[((b - 1) % 4) + 1]]

RECURSIVE PackRows(_)
PackRows(rows) ==
    IF rows = <<>> THEN <<>>
    ELSE PackRow(Head(rows)) \o PackRows(Tail(rows))

PackFile(tag, rows, fc, rs, heap) ==
    tag \o PackU32(Len(rows)) \o PackU32(fc) \o PackU32(rs) \o PackU32(Len(heap))
        \o PackRows(rows) \o heap

Heaps(alphabet) == UNION {[1..n -> alphabet] : n \in 0..MaxHeap}

Shapes == {sh \in (0..MaxWords) \X (0..MaxWords) : sh[1] * sh[2] <= MaxWords}

\* a file is cut short only when its record_size is 4 * field_count
PadDrops == {pd \in Pads \X Drops : pd[1] = 0 \/ pd[2] = 0}

\* a padded or cut file has a heap of at most one byte
GeneratedFiles ==
    UNION {
      UNION {
        {LET f == PackFile(tag, rows, sh[2], 4 * sh[2] + hp[2][1], hp[1])
         IN SubSeq(f, 1, Len(f) - hp[2][2]) :
            tag \in Tags,
            hp \in {q \in Heaps(AsciiBytes) \X PadDrops :
                      /\ 4 * sh[2] + q[2][1] >= 0
                      /\ (q[2] = <<0, 0>> \/ Len(q[1]) <= 1)}}
        : rows \in [1..sh[1] -> [1..sh[2] -> Words]]}
      : sh \in Shapes}

\* header: 2 records, 3 fields, record size 12, heap size 6;
\* records [[5,0,0],[6,4,0]]; heap b"AB\0CD\0"
ScenarioHeap == <<65, 66, 0, 67, 68, 0>>
ScenarioFile ==
    PackFile(WDBC, <<<<5, 0, 0>>, <<6, 4, 0>>>>, 3, 12, ScenarioHeap)

\* a file that ends inside its header
ShortFile == SubSeq(ScenarioFile, 1, 10)

\* tables without records, whose heap may hold any of HeapBytes
HeapFiles == {PackFile(WDBC, <<>>, 0, 0, heap) : heap \in Heaps(HeapBytes)}

Files == GeneratedFiles \cup HeapFiles \cup {ScenarioFile, ShortFile}

-----------------------------------------------------------------------------
(* Specification of the reader *)

SchemaIdle ==
    /\ xml = <<>>
    /\ xpc = "idle"
    /\ xpos = 0
    /\ index = 0
    /\ loc_map = <<>>

LocaleIdle ==
    /\ loc_index = 0
    /\ lpc = "idle"
    /\ lrow = 0
    /\ scores = <<>>
    /\ best_off = 0
    /\ confidence = <<0, 1>>

MainIdle ==
    /\ disk = <<>>
    /\ mpc = "idle"
    /\ merror = "none"
    /\ loaded = <<>>
    /\ icon_map = <<>>
    /\ duration_map = <<>>
    /\ cast_time_map = <<>>
    /\ range_map = <<>>
    /\ LOCALE_OFFSET = 0
    /\ spells = <<>>
    /\ skipped = 0
    /\ mrow = 0

DescIdle ==
    /\ desc = <<>>
    /\ duration_ms = 0
    /\ dpc = "idle"
    /\ dret = <<>>

GameIdle ==
    /\ gpc = "idle"
    /\ grow = 0
    /\ gspells = <<>>
    /\ no_name_count = 0
    /\ non_english_count = 0

CallersIdle ==
    /\ tpc = <<>>
    /\ toffset = <<>>
    /\ tresult = <<>>
    /\ tret = <<>>
    /\ tcalls = <<>>
    /\ stores = 0

BuildersIdle ==
    /\ bpc = <<>>
    /\ brecords = <<>>
    /\ bheap = <<>>
    /\ bpos = <<>>
    /\ bmap = <<>>

PoolIdle ==
    /\ blp_files = 0
    /\ unreadable = {}
    /\ ppc = "idle"
    /\ pnext = 0
    /\ future = <<>>
    /\ submits = <<>>
    /\ results = <<>>
    /\ successful = 0

SmartIdle ==
    /\ spells_json = <<>>
    /\ icons_json = <<>>
    /\ spc = "idle"
    /\ spos = 0
    /\ spells_data = <<>>
    /\ icon_mapping = <<>>
    /\ new_count = 0
    /\ updated_count = 0
    /\ sruns = 0
    /\ spells_before = <<>>

LaterIdle ==
    /\ GameIdle
    /\ CallersIdle
    /\ BuildersIdle
    /\ PoolIdle
    /\ SmartIdle

ReaderNew ==
    /\ pc = "new"
    /\ error = "none"
    /\ records = <<>>
    /\ string_block = <<>>
    /\ field_count = 0
    /\ string_cache = <<>>
    /\ ret = NoRet

Init ==
    /\ script \in Scripts
    /\ file \in Files
    /\ ReaderNew
    /\ SchemaIdle
    /\ LocaleIdle
    /\ MainIdle
    /\ DescIdle
    /\ LaterIdle

Next ==
    \/ ReadFile_extract_spells
    \/ ReadFile_extrac_game_data
    \/ ReadFile_explore_spells_proper
    \/ GetString
    \/ GetFieldString

Spec == Init /\ [][Next]_vars

-----------------------------------------------------------------------------
(* Properties of the reader *)

\* the header as the file states it (for a file of at least 20 bytes)
Hdr == UnpackHeader(Read(file, 0, 20))
HasHeader == Len(file) >= 20
ValidTag == HasHeader /\ Hdr.magic = WDBC

\* the little-endian uint32 written at 0-based byte offset o of the file
WordAt(o) ==
    file[o + 1] + 256 * file[o + 2] + 65536 * file[o + 3] + 16777216 * file[o + 4]

\* C1: for a file with a valid header whose record_size is 4 * field_count and
\* that holds record_count complete records, the loaded store holds exactly
\* record_count records of field_count words, and the word at (row i, field j)
\* is the little-endian uint32 at byte offset 20 + i * record_size + 4 * j.
C1_RecordRoundTrip ==
    (/\ pc # "new"
     /\ ValidTag
     /\ Hdr.record_size = 4 * Hdr.field_count
     /\ Len(file) >= 20 + Hdr.record_count * Hdr.record_size)
    => /\ pc = "loaded"
       /\ Len(records) = Hdr.record_count
       /\ \A i \in 0..(Hdr.record_count - 1) :
            /\ Len(records[i + 1]) = Hdr.field_count
            /\ \A j \in 0..(Hdr.field_count - 1) :
                 records[i + 1][j + 1] = WordAt(20 + i * Hdr.record_size + 4 * j)

C1_Witness ==
    /\ pc = "loaded"
    /\ ValidTag
    /\ Hdr.record_size = 4 * Hdr.field_count
    /\ Len(records) = Hdr.record_count
    /\ \E i \in 1..Len(records) : \E j \in 1..Len(records[i]) :
         (i > 1 \/ j > 1) /\ records[i][j] = 16909060

\* strings that may be written into a heap: code points "A" and U+00E9
WrittenStrings == UNION {[1..n -> {65, 233}] : n \in 0..MaxHeap}

\* the bytes of s and a terminator lie in the heap at 0-based offset off
WrittenAt(heap, off, s) ==
    LET e == Utf8Encode(s) IN
      /\ off <= Len(heap) - Len(e) - 1
      /\ SubSeq(heap, off + 1, off + Len(e) + 1) = e \o <<0>>

\* C2: the heap the loader reads is the string_block_size bytes of the file
\* that start at offset 20 + record_count * record_size (those of them the file
\* holds), and get_string(offset) returns exactly the string that was written,
\* null-terminated, at that offset of the heap.
C2_StringRoundTrip ==
    pc = "loaded" =>
      /\ string_block =
           Read(file, 20 + Hdr.record_count * Hdr.record_size, Hdr.string_block_size)
      /\ ret # NoRet =>
           \A s \in WrittenStrings :
              WrittenAt(string_block, ret.offset, s) => ret.result = s

C2_Witness ==
    /\ pc = "loaded"
    /\ string_block = <<195, 169, 0>>
    /\ ret = [offset |-> 0, result |-> <<233>>]

\* C3: get_string(0) is the empty string for every heap.
C3_OffsetZeroIsEmpty ==
    (pc = "loaded" /\ ret # NoRet /\ ret.offset = 0) => ret.result = <<>>

\* C4: get_string returns a string for every offset and never raises; the
\* result is empty when the offset is at or beyond the heap length and when no
\* null byte lies at or after the offset.
C4_ResolveTotalLenient ==
    ret # NoRet =>
      /\ pc = "loaded"
      /\ error = "none"
      /\ ret.result \in Seq(0..1114111)
      /\ ret.offset >= Len(string_block) => ret.result = <<>>
      /\ (\A e \in ret.offset..(Len(string_block) - 1) : string_block[e + 1] # 0)
           => ret.result = <<>>

C4_Witness ==
    /\ pc = "loaded"
    /\ ret # NoRet
    /\ ret.offset < Len(string_block)
    /\ string_block[ret.offset + 1] = 65
    /\ \A e \in ret.offset..(Len(string_block) - 1) : string_block[e + 1] # 0
    /\ ret.result = <<>>

ScenarioLoaded == file = ScenarioFile /\ pc = "loaded"

ShortSlice ==
    /\ ValidTag
    /\ Hdr.record_size > 0
    /\ Hdr.record_size = 4 * Hdr.field_count
    /\ Len(file) < 20 + Hdr.record_count * Hdr.record_size

\* C6: when a record slice is shorter than record_size the load does not
\* fail: the loader returns normally and the store holds exactly the complete
\* records that precede the short slice.
C6_TruncationIsNotFatal ==
    (pc # "new" /\ ShortSlice) =>
      /\ pc = "loaded"
      /\ Len(records) = (Len(file) - 20) \div Hdr.record_size
      /\ \A i \in 1..Len(records) :
           records[i] = ParseRecord(Read(file, 20 + (i - 1) * Hdr.record_size,
                                         Hdr.record_size), Hdr.field_count)

\* the file starts with four bytes that are not the signature
ForeignTag == Len(file) >= 4 /\ SubSeq(file, 1, 4) # WDBC

\* C7: loading a file whose tag is not the signature fails before any record
\* or heap byte is interpreted: the constructor raises, and no record, heap or
\* resolved string exists.
C7_ForeignTagFails ==
    (pc # "new" /\ ForeignTag) =>
      /\ pc = "raised"
      /\ error # "none"
      /\ HasHeader => error = "ValueError"
      /\ records = <<>>
      /\ string_block = <<>>
      /\ string_cache = <<>>
      /\ ret = NoRet

C7_Witness ==
    /\ pc = "raised"
    /\ ForeignTag
    /\ error = "ValueError"
    /\ Hdr.record_count > 0
    /\ Len(file) >= 20 + Hdr.record_count * Hdr.record_size + Hdr.string_block_size
    /\ Hdr.string_block_size > 0

\* C8: loading a file with a valid tag whose declared sizes exceed the bytes
\* that follow the header fails.
C8_SizeOverflowFails ==
    (/\ pc # "new"
     /\ ValidTag
     /\ Hdr.record_count * Hdr.record_size + Hdr.string_block_size > Len(file) - 20)
    => pc = "raised"

-----------------------------------------------------------------------------
(* get_spell_loc_indices: the column indices of the localized blocks *)

\* number of Field elements of the generated Spell tables
MaxSchemaFields == 3

\* An element's attrib is a function from attribute names to values; Name and
\* Type values are strings, an ArraySize value is its sequence of characters.

\* attrib.get(key, default)
AttribGet(attrib, key, default) ==
    IF key \in DOMAIN attrib THEN attrib[key] ELSE default

DigitValue ==
    [c \in {"0", "1", "2", "3", "4", "5", "6", "7", "8", "9"} |->
        CASE c = "0" -> 0 [] c = "1" -> 1 [] c = "2" -> 2 [] c = "3" -> 3
          [] c = "4" -> 4 [] c = "5" -> 5 [] c = "6" -> 6 [] c = "7" -> 7
          [] c = "8" -> 8 [] c = "9" -> 9]

\* int(text) accepts a non-empty run of decimal digits here; any other text
\* of the model raises ValueError
IsInt(text) == text # <<>> /\ \A k \in 1..Len(text) : text[k] \in DOMAIN DigitValue

RECURSIVE ParseInt(_)
ParseInt(text) ==
    IF text = <<>> THEN 0
    ELSE 10 * ParseInt(SubSeq(text, 1, Len(text) - 1)) + DigitValue[text[Len(text)]]

\* root.find(".//Table[@Name='Spell']"): the first such table of the document,
\* or NoTable
FindSpellTableOrEmpty(doc) ==
    IF \E t \in 1..Len(doc) : doc[t].Name = "Spell"
    THEN doc[CHOOSE t \in 1..Len(doc) :
               doc[t].Name = "Spell" /\ \A u \in 1..(t - 1) : doc[u].Name # "Spell"]
    ELSE [Name |-> "Spell", Fields |-> <<>>]
FindSpellTable(doc) ==
    IF \E t \in 1..Len(doc) : doc[t].Name = "Spell"
    THEN doc[CHOOSE t \in 1..Len(doc) :
               doc[t].Name = "Spell" /\ \A u \in 1..(t - 1) : doc[u].Name # "Spell"]
    ELSE NoTable

\* spell_table.findall("Field")
SpellFields == FindSpellTable(xml).Fields

\* the index after a field: a "loc" field takes 8 columns, any other field
\* array_size columns
NextIndexLocAsArray(field_type, array_size, idx) == idx + array_size
NextIndex(field_type, array_size, idx) ==
    IF field_type = "loc" THEN idx + 8 ELSE idx + array_size

\* lines 28-34: parse the document, find the table, start the loop
FindTable ==
    /\ xpc = "start"
    /\ IF FindSpellTable(xml) = NoTable
       THEN xpc' = "raised ValueError"
       ELSE xpc' = "loop"
    /\ xpos' = 0
    /\ index' = 0
    /\ loc_map' = <<>>
    /\ UNCHANGED <<xml, readerVars, localeVars, mainVars, descVars, laterVars>>

\* one iteration of for field in spell_table.findall("Field")
FieldStep ==
    /\ xpc = "loop"
    /\ xpos < Len(SpellFields)
    /\ LET field      == SpellFields[xpos + 1]
           field_type == AttribGet(field, "Type", "")
           size_text  == AttribGet(field, "ArraySize", <<"1">>)
       IN IF ~IsInt(size_text)
          THEN /\ xpc' = "raised ValueError"
               /\ UNCHANGED <<xpos, index, loc_map>>
          ELSE IF "Name" \notin DOMAIN field
          THEN /\ xpc' = "raised KeyError"
               /\ UNCHANGED <<xpos, index, loc_map>>
          ELSE /\ xpc' = "loop"
               /\ xpos' = xpos + 1
               /\ index' = NextIndex(field_type, ParseInt(size_text), index)
               /\ loc_map' =
                    IF field_type = "loc"
                    THEN [n \in DOMAIN loc_map \cup {field.Name} |->
                            IF n = field.Name THEN index ELSE loc_map[n]]
                    ELSE loc_map
    /\ UNCHANGED <<xml, readerVars, localeVars, mainVars, descVars, laterVars>>

\* return loc_map
ReturnLocMap ==
    /\ xpc = "loop"
    /\ xpos = Len(SpellFields)
    /\ xpc' = "returned"
    /\ UNCHANGED <<xml, xpos, index, loc_map, readerVars, localeVars, mainVars, descVars,
                   laterVars>>

\* The Field elements of the generated documents
FieldAttribs ==
    {[Type |-> "loc", Name |-> n] : n \in {"Name", "Description"}}
    \cup {[Type |-> "loc", ArraySize |-> <<"1", "0">>, Name |-> "Name"],
          [Type |-> "int", ArraySize |-> <<"1", "0">>, Name |-> "Description"],
          [Type |-> "int", Name |-> "Name"],
          [Type |-> "int"],
          [Type |-> "int", ArraySize |-> <<"x">>],
          [Type |-> "loc"],
          [Name |-> "Name"]}

IconTable == [Name |-> "SpellIcon", Fields |-> <<[Type |-> "loc", Name |-> "Name"]>>]

\* documents with a Spell table of the given fields, alone or after another
\* table, and documents without one
Documents(fs) ==
    {<<[Name |-> "Spell", Fields |-> fs]>>,
     <<IconTable, [Name |-> "Spell", Fields |-> fs]>>,
     <<>>, <<IconTable>>}

ReaderIdle ==
    /\ script = "extract_spells"
    /\ file = <<>>
    /\ ReaderNew

InitSchema ==
    /\ \E n \in 0..MaxSchemaFields :
         \E fs \in [1..n -> FieldAttribs] : xml \in Documents(fs)
    /\ xpc = "start"
    /\ xpos = 0
    /\ index = 0
    /\ loc_map = <<>>
    /\ ReaderIdle
    /\ LocaleIdle
    /\ MainIdle
    /\ DescIdle
    /\ LaterIdle

NextSchema ==
    \/ FindTable
    \/ FieldStep
    \/ ReturnLocMap

SpecSchema == InitSchema /\ [][NextSchema]_vars

\* the width the definition gives a field: 8 for a localized block, else the
\* declared repeat count, 1 when none is declared
DeclaredWidth(field) ==
    IF "Type" \in DOMAIN field /\ field.Type = "loc" THEN 8
    ELSE IF "ArraySize" \in DOMAIN field THEN ParseInt(field.ArraySize)
    ELSE 1

\* sum of the widths of the first n fields
RECURSIVE WidthSum(_, _)
WidthSum(fields, n) ==
    IF n = 0 THEN 0 ELSE WidthSum(fields, n - 1) + DeclaredWidth(fields[n])

IsLocField(field) == "Type" \in DOMAIN field /\ field.Type = "loc"

\* C9: fields are processed in declaration order; after xpos fields the running
\* index is the sum of their widths, and every localized field among them is
\* mapped (under its name, the last field of a name winning) to the sum of the
\* widths of all fields declared before it.
C9_LocIndexIsWidthSum ==
    xpc \in {"loop", "returned"} =>
      /\ index = WidthSum(SpellFields, xpos)
      /\ xpc = "returned" => xpos = Len(SpellFields)
      /\ DOMAIN loc_map =
           {SpellFields[i].Name : i \in {k \in 1..xpos : IsLocField(SpellFields[k])}}
      /\ \A i \in 1..xpos :
           (/\ IsLocField(SpellFields[i])
            /\ \A k \in (i + 1)..xpos :
                 IsLocField(SpellFields[k]) => SpellFields[k].Name # SpellFields[i].Name)
           => loc_map[SpellFields[i].Name] = WidthSum(SpellFields, i - 1)

C9_Witness ==
    /\ xpc = "returned"
    /\ Len(SpellFields) = 3
    /\ DOMAIN loc_map = {"Name", "Description"}
    /\ loc_map["Name"] = 0
    /\ loc_map["Description"] = 18

-----------------------------------------------------------------------------
(* detect_locale_offset: the locale slot of the localized blocks *)

\* records of the generated Spell tables
MaxRows == 2

\* "check first 200 spells"
SampleLimit == 200

\* letter_re = ^[\x20-\x7E]+$ : printable ASCII only; "$" also matches before
\* one trailing newline
LetterMatchAny(text) == text # <<>>
LetterMatch(text) ==
    LET body == IF text # <<>> /\ text[Len(text)] = 10
                THEN SubSeq(text, 1, Len(text) - 1) ELSE text
    IN /\ body # <<>>
       /\ \A k \in 1..Len(body) : body[k] >= 32 /\ body[k] <= 126

\* vowel_re = [aeiouAEIOU], searched anywhere in the text
VowelSearch(text) ==
    \E k \in 1..Len(text) : text[k] \in {97, 101, 105, 111, 117, 65, 69, 73, 79, 85}

\* lines 228-232: whether a resolved text adds 1 to its slot's score
Scores1(text) ==
    /\ ~(text = <<>> \/ Len(text) < 3)
    /\ LetterMatch(text)
    /\ VowelSearch(text)

\* for off in range(8) on one record, from slot off on: [scores, cache];
\* record[loc_index + off] raises IndexError beyond the record, and the slot
\* is skipped
RECURSIVE ScoreSlots(_, _, _, _, _, _)
ScoreSlots(heap, record, li, off, sc, cache) ==
    IF off = 8 THEN [scores |-> sc, cache |-> cache]
    ELSE IF li + off >= Len(record)
      THEN ScoreSlots(heap, record, li, off + 1, sc, cache)
      ELSE LET g == CachedGetString(heap, cache, record[li + off + 1]) IN
        ScoreSlots(heap, record, li, off + 1,
                   IF Scores1(g.result)
                   THEN [sc EXCEPT ![off + 1] = sc[off + 1] + 1] ELSE sc,
                   g.cache)

\* max(range(8), key=lambda i: scores[i]): max keeps the first item whose key
\* is greater than every key before it; b is the item kept so far, i the
\* next item
RECURSIVE MaxKeyLast(_, _, _)
MaxKeyLast(sc, i, b) ==
    IF i = 8 THEN b
    ELSE MaxKeyLast(sc, i + 1, IF sc[i + 1] >= sc[b + 1] THEN i ELSE b)

RECURSIVE MaxKey(_, _, _)
MaxKey(sc, i, b) ==
    IF i = 8 THEN b
    ELSE MaxKey(sc, i + 1, IF sc[i + 1] > sc[b + 1] THEN i ELSE b)

BestOffLast(sc) == MaxKeyLast(sc, 1, 0)
BestOff(sc) == MaxKey(sc, 1, 0)

\* sum(scores)
SumFirstSeven(sc, n) == sc[1] + sc[2] + sc[3] + sc[4] + sc[5] + sc[6] + sc[7]
RECURSIVE SumTo(_, _)
SumTo(sc, n) == IF n = 0 THEN 0 ELSE SumTo(sc, n - 1) + sc[n]

\* sample_count = min(200, len(spell_dbc.records))
SampleCountAll(recs) == Len(recs)
SampleCount(recs) == Min(SampleLimit, Len(recs))

\* lines 217-221: detect_locale_offset(spell_dbc, loc_index) is entered
DetectStart ==
    /\ script = "extract_spells"
    /\ pc = "loaded"
    /\ lpc = "idle"
    /\ lpc' = "scan"
    /\ lrow' = 0
    /\ scores' = [i \in 1..8 |-> 0]
    /\ UNCHANGED <<loc_index, best_off, confidence, readerVars, schemaVars, mainVars, descVars,
                   laterVars>>

\* one iteration of for record in spell_dbc.records[:sample_count]
ScoreRecord ==
    /\ lpc = "scan"
    /\ lrow < SampleCount(records)
    /\ LET r == ScoreSlots(string_block, records[lrow + 1], loc_index, 0, scores,
                           string_cache)
       IN /\ scores' = r.scores
          /\ string_cache' = r.cache
    /\ lrow' = lrow + 1
    /\ UNCHANGED <<loc_index, lpc, best_off, confidence, script, file, pc, error,
                   records, string_block, field_count, ret, schemaVars, mainVars, descVars,
                   laterVars>>

\* lines 234-238: the best slot, the printed confidence (a percentage, kept
\* as numerator and denominator), return best_off
DetectReturn ==
    /\ lpc = "scan"
    /\ lrow = SampleCount(records)
    /\ lpc' = "done"
    /\ best_off' = BestOff(scores)
    /\ confidence' =
         LET total == SumTo(scores, 8) IN
           IF total # 0 THEN <<scores[BestOff(scores) + 1] * 100, total>> ELSE <<0, 1>>
    /\ UNCHANGED <<loc_index, lrow, scores, readerVars, schemaVars, mainVars, descVars,
                   laterVars>>

\* The heap of the generated Spell tables:
\* offset 0 "", 1 "Ox", 4 "Axe", 8 "Hmm", 12 "Fée"
LocaleHeap ==
    <<0, 79, 120, 0, 65, 120, 101, 0, 72, 109, 109, 0, 70, 195, 169, 101, 0>>

\* offsets a slot may hold in the generated rows: the slot singled out in a
\* row holds "Axe" or "Ox"; every other slot of the table holds one filler:
\* "", "Fée", "Hmm" or "Axe"
MarkedOffsets == {4, 1}

\* <<loc_index, field_count, filler>>: the block at the start of the record,
\* after an id field, and cut short by one column
LocaleLayouts == {<<0, 8, 0>>, <<0, 8, 12>>, <<1, 9, 12>>, <<0, 8, 8>>, <<1, 8, 4>>}

LocaleRow(layout, k, marked) ==
    [c \in 1..layout[2] |->
        IF c <= layout[1] THEN 7
        ELSE IF c - 1 - layout[1] = k THEN marked ELSE layout[3]]

LocaleRows(layout) ==
    {LocaleRow(layout, k, m) : k \in 0..7, m \in MarkedOffsets}

\* s repeated n times
RECURSIVE Repeat(_, _)
Repeat(s, n) ==
    IF n = 0 THEN <<>>
    ELSE IF n % 2 = 0 THEN LET h == Repeat(s, n \div 2) IN h \o h
    ELSE s \o Repeat(s, n - 1)

\* Tables of more records than detection samples: SampleLimit equal rows, in
\* which slot 2 holds "Ox" or "Axe" and every other slot "", and one more row
LongLayout == <<0, 8, 0>>
LongTables ==
    {<<LocaleRow(LongLayout, 2, m), last>> :
        m \in MarkedOffsets, last \in LocaleRows(LongLayout)}

LongFile(t) ==
    WDBC \o PackU32(SampleLimit + 1) \o PackU32(LongLayout[2])
         \o PackU32(4 * LongLayout[2]) \o PackU32(Len(LocaleHeap))
         \o Repeat(PackRow(t[1]), SampleLimit) \o PackRow(t[2]) \o LocaleHeap

\* the reader constructed on a long table: record k is the unpacked k-th
\* record_size bytes after the header, the heap is what follows the records
LongLoaded(f) ==
    LET h == UnpackHeader(Read(f, 0, 20)) IN
    /\ pc = "loaded"
    /\ error = "none"
    /\ records = [k \in 1..h.record_count |->
                    UnpackRecord(Read(f, 20 + (k - 1) * h.record_size, h.record_size),
                                 h.field_count)]
    /\ field_count = h.field_count
    /\ string_block = Read(f, 20 + h.record_count * h.record_size,
                           h.string_block_size)
    /\ string_cache = <<>>
    /\ ret = NoRet

InitLocale ==
    /\ \/ /\ \E layout \in LocaleLayouts, n \in 0..MaxRows :
               \E rows \in [1..n -> LocaleRows(layout)] :
                 /\ loc_index = layout[1]
                 /\ file = PackFile(WDBC, rows, layout[2], 4 * layout[2], LocaleHeap)
          /\ ReaderNew
       \/ \E t \in LongTables :
            /\ loc_index = LongLayout[1]
            /\ file = LongFile(t)
            /\ LongLoaded(LongFile(t))
    /\ script = "extract_spells"
    /\ lpc = "idle"
    /\ lrow = 0
    /\ scores = <<>>
    /\ best_off = 0
    /\ confidence = <<0, 1>>
    /\ SchemaIdle
    /\ MainIdle
    /\ DescIdle
    /\ LaterIdle

NextLocale ==
    \/ ReadFile_extract_spells
    \/ DetectStart
    \/ ScoreRecord
    \/ DetectReturn

SpecLocale == InitLocale /\ [][NextLocale]_vars

\* the text slot j of a record holds: the string its column resolves to, or
\* nothing when the record has no such column
SlotText(record, j) ==
    IF loc_index + j < Len(record)
    THEN Resolve(string_block, record[loc_index + j + 1]) ELSE <<>>

PrintableAscii(text) ==
    text # <<>> /\ \A c \in 1..Len(text) : text[c] >= 32 /\ text[c] <= 126
HasVowel(text) ==
    \E c \in 1..Len(text) : text[c] \in {97, 101, 105, 111, 117, 65, 69, 73, 79, 85}
NonAscii(text) == \E c \in 1..Len(text) : text[c] > 127

Sampled == 1..Min(SampleLimit, Len(records))

\* in every sampled row slot k holds printable-ASCII text with a vowel, of at
\* least minLen characters, and every other slot holds empty or non-ASCII text
OnlySlot(k, minLen) ==
    /\ Sampled # {}
    /\ \A r \in Sampled :
         /\ loc_index + k < Len(records[r])
         /\ PrintableAscii(SlotText(records[r], k))
         /\ HasVowel(SlotText(records[r], k))
         /\ Len(SlotText(records[r], k)) >= minLen
         /\ \A j \in 0..7 \ {k} :
              SlotText(records[r], j) = <<>> \/ NonAscii(SlotText(records[r], j))

\* C10 as claimed: on sampled rows where slot k holds printable-ASCII text with
\* a vowel and every other slot holds empty or non-ASCII text, detection
\* returns slot k with confidence 1.0 (100 percent).
C10_OnlySlotWinsAsClaimed ==
    lpc = "done" =>
      \A k \in 0..7 :
        OnlySlot(k, 1) => best_off = k /\ confidence[1] = 100 * confidence[2]

\* C10 amended: the same, for text of at least 3 characters in slot k.
C10_OnlySlotWins ==
    lpc = "done" =>
      \A k \in 0..7 :
        OnlySlot(k, 3) => best_off = k /\ confidence[1] = 100 * confidence[2]

C10_Witness ==
    /\ lpc = "done"
    /\ Len(records) = 2
    /\ OnlySlot(5, 3)
    /\ NonAscii(SlotText(records[1], 0))
    /\ best_off = 5
    /\ confidence = <<200, 2>>

-----------------------------------------------------------------------------
(* parse_description *)

\* length of the generated descriptions
MaxDesc == 4

\* \w on a str pattern, for code points below 256: ASCII letters, digits and
\* "_", and the Latin-1 letters and digits
IsWord(c) ==
    \/ c >= 48 /\ c <= 57
    \/ c >= 65 /\ c <= 90
    \/ c = 95
    \/ c >= 97 /\ c <= 122
    \/ c \in {170, 178, 179, 181, 185, 186, 188, 189, 190}
    \/ c >= 192 /\ c <= 255 /\ c # 215 /\ c # 247

\* the characters str.strip() removes, for code points below 256
IsSpace(c) == c \in {9, 10, 11, 12, 13, 28, 29, 30, 31, 32, 133, 160}

\* re.sub of a pattern that matches exactly the characters of pat: the
\* non-overlapping matches, leftmost first, become repl
RECURSIVE ReSubLiteral(_, _, _)
ReSubLiteral(pat, repl, text) ==
    IF text = <<>> THEN <<>>
    ELSE IF Len(text) >= Len(pat) /\ SubSeq(text, 1, Len(pat)) = pat
      THEN repl \o ReSubLiteral(pat, repl, SubSeq(text, Len(pat) + 1, Len(text)))
      ELSE <<Head(text)>> \o ReSubLiteral(pat, repl, Tail(text))

\* number of word characters of text from 1-based position i on
RECURSIVE WordRun(_, _)
WordRun(text, i) ==
    IF i <= Len(text) /\ IsWord(text[i]) THEN 1 + WordRun(text, i + 1) ELSE 0

\* re.sub(r'\$\w+', 'X', text); a replacement is not searched again
RECURSIVE ReSubToken(_)
ReSubToken(text) ==
    IF text = <<>> THEN <<>>
    ELSE IF text[1] = 36 /\ WordRun(text, 2) > 0
      THEN <<88>> \o ReSubToken(SubSeq(text, 2 + WordRun(text, 2), Len(text)))
      ELSE <<Head(text)>> \o ReSubToken(Tail(text))

\* str.strip()
RECURSIVE LStrip(_)
LStrip(text) ==
    IF text # <<>> /\ IsSpace(Head(text)) THEN LStrip(Tail(text)) ELSE text
RECURSIVE RStrip(_)
RStrip(text) ==
    IF text # <<>> /\ IsSpace(text[Len(text)])
    THEN RStrip(SubSeq(text, 1, Len(text) - 1)) ELSE text
Strip(text) == RStrip(LStrip(text))

\* str(n) for n >= 0
RECURSIVE Digits(_)
Digits(n) == IF n < 10 THEN <<48 + n>> ELSE Digits(n \div 10) \o <<48 + (n % 10)>>

\* f'{duration_ms / 1000:.0f}': rounded to the nearest integer, a half to even
FormatSeconds(ms) ==
    LET q == ms \div 1000
        r == ms % 1000
    IN Digits(IF r > 500 \/ (r = 500 /\ q % 2 = 1) THEN q + 1 ELSE q)

\* ' sec'
SecSuffix == <<32, 115, 101, 99>>

parse_description(d, ms) ==
    IF d = <<>> THEN <<>>
    ELSE
      LET d1 == ReSubLiteral(<<36, 115, 49>>, <<88>>, d)
          d2 == ReSubLiteral(<<36, 115, 50>>, <<89>>, d1)
          d3 == ReSubLiteral(<<36, 115, 51>>, <<90>>, d2)
          d4 == ReSubLiteral(<<36, 111, 49>>, <<88>>, d3)
          d5 == ReSubLiteral(<<36, 111, 50>>, <<89>>, d4)
          d6 == ReSubLiteral(<<36, 111, 51>>, <<90>>, d5)
          d7 == IF ms > 0
                THEN ReSubLiteral(<<36, 100>>, FormatSeconds(ms) \o SecSuffix, d6)
                ELSE ReSubLiteral(<<36, 100>>, <<90>> \o SecSuffix, d6)
      IN Strip(ReSubToken(d7))

\* parse_description(desc, duration_ms) is called and returns
ParseDescription ==
    /\ dpc = "called"
    /\ dpc' = "returned"
    /\ dret' = parse_description(desc, duration_ms)
    /\ UNCHANGED <<desc, duration_ms, readerVars, schemaVars, localeVars, mainVars,
                   laterVars>>

\* the characters of the generated descriptions: "$", "s", "d", "1", "a", " "
DescChars == {36, 115, 100, 49, 97, 32}
\* the durations of the generated calls, in ms
Durations == {0, 1500, 2500}

InitDescription ==
    /\ \E n \in 0..MaxDesc : desc \in [1..n -> DescChars]
    /\ duration_ms \in Durations
    /\ dpc = "called"
    /\ dret = <<>>
    /\ script = "extract_spells"
    /\ file = <<>>
    /\ ReaderNew
    /\ SchemaIdle
    /\ LocaleIdle
    /\ MainIdle
    /\ LaterIdle

NextDescription == ParseDescription

SpecDescription == InitDescription /\ [][NextDescription]_vars

\* C14: the result of parse_description contains no "$" immediately followed
\* by a word character.
C14_NoRawPlaceholder ==
    dpc = "returned" =>
      \A i \in 1..(Len(dret) - 1) : ~(dret[i] = 36 /\ IsWord(dret[i + 1]))

-----------------------------------------------------------------------------
(* The lookup builders, extract_spell and main of extract_spells.py *)

\* records of the generated Spell tables of a run
MaxSpells == 2

\* None where a str is expected, and None where a list is expected
NoneStr == <<-1>>
NoneList == <<<<-1, -1>>>>

\* 'INV_Misc_QuestionMark'
DefaultIcon ==
    <<73, 78, 86, 95, 77, 105, 115, 99, 95, 81, 117, 101, 115, 116, 105, 111,
      110, 77, 97, 114, 107>>

\* LOC_INDICES.get(key, default); LOC_INDICES is what get_spell_loc_indices
\* returned when the module was loaded
LocGet(key, default) == IF key \in DOMAIN loc_map THEN loc_map[key] ELSE default

SPELL_FIELDS ==
    [Id |-> 0,
     School |-> 1,
     CastingTimeIndex |-> 18,
     RecoveryTime |-> 19,
     BaseLevel |-> 28,
     SpellLevel |-> 29,
     MaxLevel |-> 27,
     DurationIndex |-> 30,
     PowerType |-> 31,
     ManaCost |-> 32,
     RangeIndex |-> 36,
     SpellIconID |-> 117,
     Name_enUS |-> LocGet("Name", 119),
     NameSubtext_enUS |-> LocGet("NameSubtext", 128) + 1,
     Description_enUS |-> LocGet("Description", 137) + 2,
     Reagent_1 |-> 42, Reagent_2 |-> 43, Reagent_3 |-> 44, Reagent_4 |-> 45,
     Reagent_5 |-> 46, Reagent_6 |-> 47, Reagent_7 |-> 48, Reagent_8 |-> 49,
     ReagentCount_1 |-> 50, ReagentCount_2 |-> 51, ReagentCount_3 |-> 52,
     ReagentCount_4 |-> 53, ReagentCount_5 |-> 54, ReagentCount_6 |-> 55,
     ReagentCount_7 |-> 56, ReagentCount_8 |-> 57]

\* f'Reagent_{i}' and f'ReagentCount_{i}' for i in range(1, 9)
ReagentKey ==
    <<"Reagent_1", "Reagent_2", "Reagent_3", "Reagent_4",
      "Reagent_5", "Reagent_6", "Reagent_7", "Reagent_8">>
ReagentCountKey ==
    <<"ReagentCount_1", "ReagentCount_2", "ReagentCount_3", "ReagentCount_4",
      "ReagentCount_5", "ReagentCount_6", "ReagentCount_7", "ReagentCount_8">>

SCHEMA ==
    <<"id", "name", "rank", "icon", "school", "desc",
      "cost", "powerType", "castTime", "cooldown",
      "rangeMin", "rangeMax", "duration",
      "reagents", "minLevel", "spellLevel", "maxLevel">>

\* DBCReader(path) of extract_spells.py on the bytes f: what the constructor
\* leaves, or the exception it raises
ReadDBC(f) ==
    LET header == Read(f, 0, 20)
        failed(e) == [ok |-> FALSE, error |-> e, records |-> <<>>,
                      field_count |-> 0, string_block |-> <<>>]
    IN IF Len(header) # 20 THEN failed("struct.error")
       ELSE LET h == UnpackHeader(header) IN
         IF BadMagic(h.magic) THEN failed("ValueError")
         ELSE LET r == UnpackRecords(f, 20, h.record_count, h.field_count,
                                     h.record_size, <<>>) IN
           IF ~r.ok THEN failed("struct.error")
           ELSE [ok |-> TRUE, error |-> "none", records |-> r.records,
                 field_count |-> h.field_count,
                 string_block |-> Read(f, r.pos, h.string_block_size)]

\* d[k] = v
MapPut(d, k, v) == [x \in DOMAIN d \cup {k} |-> IF x = k THEN v ELSE d[x]]

\* d.get(k, default)
MapGetDefaultOnly(d, k, default) == default
MapGet(d, k, default) == IF k \in DOMAIN d THEN d[k] ELSE default

\* get_float: the float whose IEEE 754 binary32 bits are the word, as
\* <<sign, biased exponent, fraction>>
get_float(w) == <<(w \div 8388608) \div 256, (w \div 8388608) % 256, w % 8388608>>

\* texture_path.split('\\')[-1] if '\\' in texture_path else texture_path
RECURSIVE IconName(_)
IconName(texture_path) ==
    IF \E i \in 1..Len(texture_path) : texture_path[i] = 92
    THEN IconName(Tail(texture_path)) ELSE texture_path

\* some record has no column r[k]: the loop of a builder raises IndexError
LacksColumnOrRows(recs, k) == recs = <<>> \/ \E i \in 1..Len(recs) : Len(recs[i]) <= k
LacksColumn(recs, k) == \E i \in 1..Len(recs) : Len(recs[i]) <= k

\* the loop of load_spell_icons over the first n records
RECURSIVE IconMapOf(_, _, _)
IconMapOf(recs, heap, n) ==
    IF n = 0 THEN <<>>
    ELSE LET texture_path == Resolve(heap, recs[n][2])
             before == IconMapOf(recs, heap, n - 1)
         IN IF texture_path # <<>>
            THEN MapPut(before, recs[n][1], IconName(texture_path))
            ELSE before

\* {r[0]: r[1] for r in dbc.records}, over the first n records
RECURSIVE PairMapOf(_, _)
PairMapOf(recs, n) ==
    IF n = 0 THEN <<>>
    ELSE MapPut(PairMapOf(recs, n - 1), recs[n][1], recs[n][2])

\* {r[0]: (get_float(r[1]), get_float(r[2])) for r in dbc.records}
RECURSIVE RangeMapOf(_, _)
RangeMapOf(recs, n) ==
    IF n = 0 THEN <<>>
    ELSE MapPut(RangeMapOf(recs, n - 1), recs[n][1],
                <<get_float(recs[n][2]), get_float(recs[n][3])>>)

\* an exception leaves main: the run ends
MainRaise(e) ==
    /\ mpc' = "raised"
    /\ merror' = e

\* icon_map = load_spell_icons(DBC_PATH)
LoadSpellIcons ==
    /\ mpc = "load_spell_icons"
    /\ loaded' = Append(loaded, "SpellIcon")
    /\ LET dbc == ReadDBC(disk.SpellIcon) IN
         IF ~dbc.ok THEN MainRaise(dbc.error) /\ UNCHANGED icon_map
         ELSE IF LacksColumn(dbc.records, 1)
           THEN MainRaise("IndexError") /\ UNCHANGED icon_map
           ELSE /\ icon_map' = IconMapOf(dbc.records, dbc.string_block,
                                         Len(dbc.records))
                /\ mpc' = "load_spell_durations"
                /\ UNCHANGED merror
    /\ UNCHANGED <<disk, duration_map, cast_time_map, range_map, LOCALE_OFFSET,
                   spells, skipped, mrow, readerVars, schemaVars, localeVars,
                   descVars, laterVars>>

\* duration_map = load_spell_durations(DBC_PATH)
LoadSpellDurations ==
    /\ mpc = "load_spell_durations"
    /\ loaded' = Append(loaded, "SpellDuration")
    /\ LET dbc == ReadDBC(disk.SpellDuration) IN
         IF ~dbc.ok THEN MainRaise(dbc.error) /\ UNCHANGED duration_map
         ELSE IF LacksColumn(dbc.records, 1)
           THEN MainRaise("IndexError") /\ UNCHANGED duration_map
           ELSE /\ duration_map' = PairMapOf(dbc.records, Len(dbc.records))
                /\ mpc' = "load_spell_cast_times"
                /\ UNCHANGED merror
    /\ UNCHANGED <<disk, icon_map, cast_time_map, range_map, LOCALE_OFFSET,
                   spells, skipped, mrow, readerVars, schemaVars, localeVars,
                   descVars, laterVars>>

\* cast_time_map = load_spell_cast_times(DBC_PATH)
LoadSpellCastTimes ==
    /\ mpc = "load_spell_cast_times"
    /\ loaded' = Append(loaded, "SpellCastTimes")
    /\ LET dbc == ReadDBC(disk.SpellCastTimes) IN
         IF ~dbc.ok THEN MainRaise(dbc.error) /\ UNCHANGED cast_time_map
         ELSE IF LacksColumn(dbc.records, 1)
           THEN MainRaise("IndexError") /\ UNCHANGED cast_time_map
           ELSE /\ cast_time_map' = PairMapOf(dbc.records, Len(dbc.records))
                /\ mpc' = "load_spell_ranges"
                /\ UNCHANGED merror
    /\ UNCHANGED <<disk, icon_map, duration_map, range_map, LOCALE_OFFSET,
                   spells, skipped, mrow, readerVars, schemaVars, localeVars,
                   descVars, laterVars>>

\* range_map = load_spell_ranges(DBC_PATH)
LoadSpellRanges ==
    /\ mpc = "load_spell_ranges"
    /\ loaded' = Append(loaded, "SpellRange")
    /\ LET dbc == ReadDBC(disk.SpellRange) IN
         IF ~dbc.ok THEN MainRaise(dbc.error) /\ UNCHANGED range_map
         ELSE IF LacksColumn(dbc.records, 2)
           THEN MainRaise("IndexError") /\ UNCHANGED range_map
           ELSE /\ range_map' = RangeMapOf(dbc.records, Len(dbc.records))
                /\ mpc' = "load_spell"
                /\ UNCHANGED merror
    /\ UNCHANGED <<disk, icon_map, duration_map, cast_time_map, LOCALE_OFFSET,
                   spells, skipped, mrow, readerVars, schemaVars, localeVars,
                   descVars, laterVars>>

\* spell_dbc = DBCReader(DBC_PATH / 'Spell.dbc'); name_loc_index
LoadSpell ==
    /\ mpc = "load_spell"
    /\ pc = "new"
    /\ loaded' = Append(loaded, "Spell")
    /\ file' = disk.Spell
    /\ LET dbc == ReadDBC(disk.Spell) IN
         IF ~dbc.ok
         THEN /\ MainRaise(dbc.error)
              /\ Raise(dbc.error, <<>>, 0)
              /\ UNCHANGED loc_index
         ELSE /\ Loaded(dbc.records, dbc.field_count, dbc.string_block)
              /\ mpc' = "detect_locale_offset"
              /\ loc_index' = SPELL_FIELDS.Name_enUS
              /\ UNCHANGED merror
    /\ UNCHANGED <<script, string_cache, ret, lpc, lrow, scores, best_off,
                   confidence, disk, icon_map, duration_map, cast_time_map,
                   range_map, LOCALE_OFFSET, spells, skipped, mrow, schemaVars,
                   descVars, laterVars>>

\* LOCALE_OFFSET = detected_offset; spells, skipped = [], 0
SetLocaleOffsetEarly ==
    /\ mpc = "detect_locale_offset"
    /\ LOCALE_OFFSET' = best_off
    /\ spells' = <<>>
    /\ skipped' = 0
    /\ mrow' = 0
    /\ mpc' = "extract"
    /\ UNCHANGED <<disk, merror, loaded, icon_map, duration_map, cast_time_map,
                   range_map, readerVars, schemaVars, localeVars, descVars,
                   laterVars>>
SetLocaleOffset ==
    /\ mpc = "detect_locale_offset"
    /\ lpc = "done"
    /\ LOCALE_OFFSET' = best_off
    /\ spells' = <<>>
    /\ skipped' = 0
    /\ mrow' = 0
    /\ mpc' = "extract"
    /\ UNCHANGED <<disk, merror, loaded, icon_map, duration_map, cast_time_map,
                   range_map, readerVars, schemaVars, localeVars, descVars,
                   laterVars>>

\* the reagents list of extract_spell, from Reagent_i on
RECURSIVE Reagents(_, _)
Reagents(record, i) ==
    IF i > 8 THEN <<>>
    ELSE LET reagent_id == record[SPELL_FIELDS[ReagentKey[i]] + 1]
             reagent_count == record[SPELL_FIELDS[ReagentCountKey[i]] + 1]
         IN (IF reagent_id > 0 THEN <<<<reagent_id, reagent_count>>>> ELSE <<>>)
            \o Reagents(record, i + 1)

\* the list extract_spell returns, from the values of its local variables
SpellArraySwapped(l) ==
    <<l.spell_id, l.name, l.rank, l.icon, l.school, l.desc,
      l.cost, l.power_type, l.cooldown, l.cast_time,
      l.range_min, l.range_max, l.duration_ms,
      l.reagents, l.min_level, l.spell_level, l.max_level>>
SpellArray(l) ==
    <<l.spell_id, l.name, l.rank, l.icon, l.school, l.desc,
      l.cost, l.power_type, l.cast_time, l.cooldown,
      l.range_min, l.range_max, l.duration_ms,
      l.reagents, l.min_level, l.spell_level, l.max_level>>

\* extract_spell(record, spell_dbc, icon_map, duration_map, cast_time_map,
\* range_map): [raised, row, cache]; record[k] raises IndexError when the
\* record has no column k
extract_spell(record, heap, cache) ==
    LET F == SPELL_FIELDS
        col(k) == record[k + 1]
        lacks(k) == Len(record) <= k
        failed(c) == [raised |-> TRUE, row |-> <<>>, cache |-> c]
    IN
    IF lacks(F.Id) \/ lacks(F.Name_enUS + LOCALE_OFFSET) THEN failed(cache)
    ELSE
      LET g1 == CachedGetString(heap, cache, col(F.Name_enUS + LOCALE_OFFSET)) IN
      IF lacks(F.NameSubtext_enUS + LOCALE_OFFSET) THEN failed(g1.cache)
      ELSE
        LET g2 == CachedGetString(heap, g1.cache,
                                  col(F.NameSubtext_enUS + LOCALE_OFFSET)) IN
        IF lacks(F.SpellIconID) \/ lacks(F.School)
           \/ lacks(F.Description_enUS + LOCALE_OFFSET)
        THEN failed(g2.cache)
        ELSE
          LET g3 == CachedGetString(heap, g2.cache,
                                    col(F.Description_enUS + LOCALE_OFFSET))
              duration == MapGet(duration_map, col(F.DurationIndex), 0)
              range == MapGet(range_map, col(F.RangeIndex), <<0, 0>>)
              reagents == Reagents(record, 1)
          IN [raised |-> FALSE,
              cache |-> g3.cache,
              row |-> SpellArray(
                [spell_id |-> col(F.Id),
                 name |-> g1.result,
                 rank |-> IF g2.result # <<>> THEN g2.result ELSE NoneStr,
                 icon |-> MapGet(icon_map, col(F.SpellIconID), DefaultIcon),
                 school |-> col(F.School),
                 desc |-> parse_description(g3.result, duration),
                 cost |-> col(F.ManaCost),
                 power_type |-> col(F.PowerType),
                 cast_time |-> MapGet(cast_time_map, col(F.CastingTimeIndex), 0),
                 cooldown |-> col(F.RecoveryTime),
                 range_min |-> range[1],
                 range_max |-> range[2],
                 duration_ms |-> duration,
                 reagents |-> IF reagents # <<>> THEN reagents ELSE NoneList,
                 min_level |-> col(F.BaseLevel),
                 spell_level |-> col(F.SpellLevel),
                 max_level |-> col(F.MaxLevel)])]

\* one iteration of for record in spell_dbc.records
ExtractRecord ==
    /\ mpc = "extract"
    /\ mrow < Len(records)
    /\ LET r == extract_spell(records[mrow + 1], string_block, string_cache) IN
         /\ string_cache' = r.cache
         /\ IF r.raised
            THEN /\ MainRaise("IndexError")
                 /\ UNCHANGED <<spells, skipped, mrow>>
            ELSE /\ IF r.row # <<>>
                    THEN spells' = Append(spells, r.row) /\ UNCHANGED skipped
                    ELSE skipped' = skipped + 1 /\ UNCHANGED spells
                 /\ mrow' = mrow + 1
                 /\ UNCHANGED <<mpc, merror>>
    /\ UNCHANGED <<disk, loaded, icon_map, duration_map, cast_time_map, range_map,
                   LOCALE_OFFSET, script, file, pc, error, records, string_block,
                   field_count, ret, schemaVars, localeVars, descVars,
                   laterVars>>

\* the loop is over: output = {..., "schema": SCHEMA, "spells": spells}
\* is written
WriteOutput ==
    /\ mpc = "extract"
    /\ mrow = Len(records)
    /\ mpc' = "written"
    /\ UNCHANGED <<disk, merror, loaded, icon_map, duration_map, cast_time_map,
                   range_map, LOCALE_OFFSET, spells, skipped, mrow, readerVars,
                   schemaVars, localeVars, descVars, laterVars>>

-----------------------------------------------------------------------------
(* The runs of main *)

\* heap of the generated SpellIcon tables: offset 0 "", 1 "I\F", 5 "G"
IconHeap == <<0, 73, 92, 70, 0, 71, 0>>

\* heap of the generated Spell tables:
\* offset 0 "", 1 "Axe", 5 "Test", 10 "X", 12 "R1", 15 "$s1 $d"
SpellHeap ==
    <<0, 65, 120, 101, 0, 84, 101, 115, 116, 0, 88, 0, 82, 49, 0,
      36, 115, 49, 32, 36, 100, 0>>

\* a table file of records of equal width
TableFile(rows, fc, heap) == PackFile(WDBC, rows, fc, 4 * fc, heap)

\* the satellite tables of a run: populated, without rows, with a foreign tag
\* on SpellIcon.dbc, and with SpellRange.dbc cut inside its header
Populated ==
    [SpellIcon |-> TableFile(<<<<1, 1>>, <<2, 5>>, <<3, 0>>>>, 2, IconHeap),
     SpellDuration |-> TableFile(<<<<1, 1500, 0>>>>, 3, <<>>),
     SpellCastTimes |-> TableFile(<<<<1, 3000>>>>, 2, <<>>),
     SpellRange |-> TableFile(<<<<1, 0, 1084227584>>>>, 3, <<>>)]
ZeroRows ==
    [SpellIcon |-> TableFile(<<>>, 2, <<0>>),
     SpellDuration |-> TableFile(<<>>, 3, <<>>),
     SpellCastTimes |-> TableFile(<<>>, 2, <<>>),
     SpellRange |-> TableFile(<<>>, 3, <<>>)]
Satellites ==
    {Populated, ZeroRows,
     [Populated EXCEPT !.SpellIcon = <<87, 68, 66, 50>> \o Tail(Tail(Tail(Tail(@))))],
     [Populated EXCEPT !.SpellRange = SubSeq(@, 1, 10)],
     [ZeroRows EXCEPT !.SpellCastTimes = TableFile(<<<<1>>>>, 1, <<>>)]}

\* what get_spell_loc_indices returned when the module was loaded: no
\* localized field, or the three blocks of Spell
LocIndices ==
    {<<>>, [Name |-> 119, NameSubtext |-> 127, Description |-> 135]}

\* the bytes of a row of n columns that holds 0 except in the given cells, a
\* sequence of <<column, value>> in the order of the columns
RECURSIVE PackCells(_, _, _, _)
PackCells(cells, k, from, n) ==
    IF k > Len(cells) THEN [b \in 1..(4 * (n - from)) |-> 0]
    ELSE [b \in 1..(4 * (cells[k][1] - from)) |-> 0] \o PackU32(cells[k][2])
         \o PackCells(cells, k + 1, cells[k][1] + 1, n)

\* the bytes of a generated Spell row of fc columns: id, the name, rank and
\* description offsets at the given slot of their blocks, one id for the four
\* joins, a reagent, a cost and a cooldown, and 0 elsewhere
SpellRow(fc, slot, id, name_off, join_id) ==
    LET F == SPELL_FIELDS IN
    SubSeq(
      PackCells(<<<<F.Id, id>>,
                  <<F.CastingTimeIndex, join_id>>,
                  <<F.RecoveryTime, 8000>>,
                  <<F.DurationIndex, join_id>>,
                  <<F.ManaCost, 40>>,
                  <<F.RangeIndex, join_id>>,
                  <<F.Reagent_2, 17>>,
                  <<F.ReagentCount_2, join_id>>,
                  <<F.SpellIconID, join_id>>,
                  <<F.Name_enUS + slot, name_off>>,
                  <<F.NameSubtext_enUS + slot, 12>>,
                  <<F.Description_enUS + slot, 15>>>>,
                1, 0, IF fc > F.Description_enUS + 8
                      THEN fc ELSE F.Description_enUS + 8),
      1, 4 * fc)

\* <<id, name offset, join id>> of the generated rows
SpellRowKinds ==
    {<<7, 1, 1>>, <<7, 1, 9>>, <<0, 1, 1>>, <<100001, 1, 9>>, <<7, 5, 1>>, <<7, 10, 9>>}

\* the kinds of rows of a run's Spell table: one kind when the run ends before
\* its rows are read, in a builder or at the first record that is too short
SpellKindsOf(sat, shape) ==
    IF sat \in {Populated, ZeroRows} /\ shape[1] > SPELL_FIELDS.SpellIconID + 1
    THEN SpellRowKinds ELSE {<<7, 1, 9>>}

\* <<field_count, slot>> of the generated Spell tables: every mapped column,
\* and records that end before the name block
SpellShapes == {<<147, 0>>, <<147, 7>>, <<118, 0>>}

\* the bytes of the rows of a generated Spell table
RECURSIVE SpellRows(_, _)
SpellRows(shape, kinds) ==
    IF kinds = <<>> THEN <<>>
    ELSE SpellRow(shape[1], shape[2], Head(kinds)[1], Head(kinds)[2], Head(kinds)[3])
         \o SpellRows(shape, Tail(kinds))

\* a Spell table file of n records of fc columns
SpellFile(n, fc, rows) ==
    WDBC \o PackU32(n) \o PackU32(fc) \o PackU32(4 * fc) \o PackU32(Len(SpellHeap))
         \o rows \o SpellHeap

InitMain ==
    /\ loc_map \in LocIndices
    /\ xml = <<>>
    /\ xpc = "returned"
    /\ xpos = 0
    /\ index = 0
    /\ \E sat \in Satellites, shape \in SpellShapes, n \in 0..MaxSpells :
         \E kinds \in [1..n -> SpellKindsOf(sat, shape)] :
           disk = [SpellIcon |-> sat.SpellIcon,
                   SpellDuration |-> sat.SpellDuration,
                   SpellCastTimes |-> sat.SpellCastTimes,
                   SpellRange |-> sat.SpellRange,
                   Spell |-> SpellFile(n, shape[1], SpellRows(shape, kinds))]
    /\ mpc = "load_spell_icons"
    /\ merror = "none"
    /\ loaded = <<>>
    /\ icon_map = <<>>
    /\ duration_map = <<>>
    /\ cast_time_map = <<>>
    /\ range_map = <<>>
    /\ LOCALE_OFFSET = 0
    /\ spells = <<>>
    /\ skipped = 0
    /\ mrow = 0
    /\ script = "extract_spells"
    /\ file = <<>>
    /\ ReaderNew
    /\ LocaleIdle
    /\ DescIdle
    /\ LaterIdle

NextMain ==
    \/ LoadSpellIcons
    \/ LoadSpellDurations
    \/ LoadSpellCastTimes
    \/ LoadSpellRanges
    \/ LoadSpell
    \/ DetectStart
    \/ ScoreRecord
    \/ DetectReturn
    \/ SetLocaleOffset
    \/ ExtractRecord
    \/ WriteOutput

SpecMain == InitMain /\ [][NextMain]_vars

-----------------------------------------------------------------------------
(* should_skip_spell *)

\* str.upper() of one character, for code points below 256
UpperChar(c) ==
    IF c >= 97 /\ c <= 122 THEN <<c - 32>>
    ELSE IF c = 181 THEN <<924>>
    ELSE IF c = 223 THEN <<83, 83>>
    ELSE IF c = 255 THEN <<376>>
    ELSE IF c >= 224 /\ c <= 254 /\ c # 247 THEN <<c - 32>>
    ELSE <<c>>

\* name.upper()
RECURSIVE Upper(_)
Upper(name) == IF name = <<>> THEN <<>> ELSE UpperChar(Head(name)) \o Upper(Tail(name))

\* keyword in text
Contains(text, keyword) ==
    \E i \in 0..(Len(text) - Len(keyword)) : SubSeq(text, i + 1, i + Len(keyword)) = keyword

\* ['(OLD)', 'TEST', 'NYI', 'DND', 'QA', 'UNUSED', 'DEPRECATED', 'DEATHKNIGHT']
skip_keywords ==
    {<<40, 79, 76, 68, 41>>, <<84, 69, 83, 84>>, <<78, 89, 73>>, <<68, 78, 68>>,
     <<81, 65>>, <<85, 78, 85, 83, 69, 68>>,
     <<68, 69, 80, 82, 69, 67, 65, 84, 69, 68>>,
     <<68, 69, 65, 84, 72, 75, 78, 73, 71, 72, 84>>}

\* should_skip_spell(name); no statement of the script calls it
should_skip_spell(name) == \E keyword \in skip_keywords : Contains(Upper(name), keyword)

-----------------------------------------------------------------------------
(* Properties of the runs of main *)

\* the rows of the output, once the loop has started
Emitted == IF mpc \in {"extract", "written"} \/ (mpc = "raised" /\ lpc = "done")
           THEN spells ELSE <<>>

\* C11: no emitted row has a name that contains an exclusion keyword, upper
\* and lower case letters taken as equal.
C11_NoBannedNameEmitted ==
    \A j \in 1..Len(Emitted) : ~should_skip_spell(Emitted[j][2])

\* C12: every emitted row has an id that is not 0 and at most 100000, and a
\* name of at least 2 characters.
C12_EmittedIdAndNameValid ==
    \A j \in 1..Len(Emitted) :
      /\ Emitted[j][1] # 0
      /\ Emitted[j][1] <= 100000
      /\ Len(Emitted[j][2]) >= 2

\* the column of a record the extractor names by a key of SPELL_FIELDS
Column(record, key) == record[SPELL_FIELDS[key] + 1]

\* 'INV_Misc_QuestionMark'
C13_QuestionMark ==
    <<73, 78, 86, 95, 77, 105, 115, 99, 95, 81, 117, 101, 115, 116, 105, 111,
      110, 77, 97, 114, 107>>

\* C13: every record the loop has passed was emitted, and in its row the
\* duration, cast time, range and icon hold the lookup table's value for the
\* record's id when the table has the id, and otherwise 0, 0, (0, 0) and
\* 'INV_Misc_QuestionMark'.
C13_LookupOrDefault ==
    mpc \in {"extract", "written"} =>
      /\ Len(spells) = mrow
      /\ \A j \in 1..mrow :
           LET record == records[j]
               row == spells[j]
               duration_id == Column(record, "DurationIndex")
               cast_time_id == Column(record, "CastingTimeIndex")
               range_id == Column(record, "RangeIndex")
               icon_id == Column(record, "SpellIconID")
           IN /\ row[13] = IF duration_id \in DOMAIN duration_map
                           THEN duration_map[duration_id] ELSE 0
              /\ row[9] = IF cast_time_id \in DOMAIN cast_time_map
                          THEN cast_time_map[cast_time_id] ELSE 0
              /\ IF range_id \in DOMAIN range_map
                 THEN <<row[11], row[12]>> = range_map[range_id]
                 ELSE row[11] = 0 /\ row[12] = 0
              /\ row[4] = IF icon_id \in DOMAIN icon_map
                          THEN icon_map[icon_id] ELSE C13_QuestionMark

\* a row with all four ids absent from populated tables, after a row with all
\* four present
C13_Witness ==
    /\ mpc = "written"
    /\ Len(spells) = 2
    /\ DOMAIN icon_map = {1, 2}
    /\ 1 \in DOMAIN duration_map /\ 1 \in DOMAIN cast_time_map /\ 1 \in DOMAIN range_map
    /\ Column(records[1], "SpellIconID") = 1
    /\ Column(records[2], "SpellIconID") = 9
    /\ spells[1][4] = <<70>>
    /\ spells[1][13] = 1500
    /\ spells[1][12] = get_float(1084227584)
    /\ spells[2][4] = C13_QuestionMark
    /\ spells[2][9] = 0 /\ spells[2][11] = 0 /\ spells[2][12] = 0 /\ spells[2][13] = 0

\* the string a record's localized column resolves to, at the run's slot
LocalizedText(record, key) ==
    Resolve(string_block, record[SPELL_FIELDS[key] + LOCALE_OFFSET + 1])

\* the reagent pairs of a record with a positive reagent id, in order
ReagentPairs(record) ==
    LET kept == {i \in 1..8 : Column(record, ReagentKey[i]) > 0}
        nth(k) == CHOOSE i \in kept : Cardinality({h \in kept : h < i}) = k - 1
    IN [k \in 1..Cardinality(kept) |->
          <<Column(record, ReagentKey[nth(k)]), Column(record, ReagentCountKey[nth(k)])>>]

\* the value of an output field of a record, by the field's name in the schema
FieldValue(name, record) ==
    CASE name = "id" -> Column(record, "Id")
      [] name = "name" -> LocalizedText(record, "Name_enUS")
      [] name = "rank" ->
           IF LocalizedText(record, "NameSubtext_enUS") = <<>> THEN NoneStr
           ELSE LocalizedText(record, "NameSubtext_enUS")
      [] name = "icon" ->
           MapGet(icon_map, Column(record, "SpellIconID"), C13_QuestionMark)
      [] name = "school" -> Column(record, "School")
      [] name = "desc" ->
           parse_description(LocalizedText(record, "Description_enUS"),
                             MapGet(duration_map, Column(record, "DurationIndex"), 0))
      [] name = "cost" -> Column(record, "ManaCost")
      [] name = "powerType" -> Column(record, "PowerType")
      [] name = "castTime" ->
           MapGet(cast_time_map, Column(record, "CastingTimeIndex"), 0)
      [] name = "cooldown" -> Column(record, "RecoveryTime")
      [] name = "rangeMin" ->
           MapGet(range_map, Column(record, "RangeIndex"), <<0, 0>>)[1]
      [] name = "rangeMax" ->
           MapGet(range_map, Column(record, "RangeIndex"), <<0, 0>>)[2]
      [] name = "duration" ->
           MapGet(duration_map, Column(record, "DurationIndex"), 0)
      [] name = "reagents" ->
           IF ReagentPairs(record) = <<>> THEN NoneList ELSE ReagentPairs(record)
      [] name = "minLevel" -> Column(record, "BaseLevel")
      [] name = "spellLevel" -> Column(record, "SpellLevel")
      [] name = "maxLevel" -> Column(record, "MaxLevel")

\* C15: every emitted row has as many entries as the output schema, 17, entry
\* i is the value of the schema's i-th field, and the rows are in the order of
\* the table's records.
C15_RowsMatchSchema ==
    mpc \in {"extract", "written"} =>
      /\ Len(SCHEMA) = 17
      /\ Len(spells) = mrow
      /\ \A j \in 1..Len(spells) :
           /\ Len(spells[j]) = Len(SCHEMA)
           /\ \A i \in 1..Len(SCHEMA) : spells[j][i] = FieldValue(SCHEMA[i], records[j])

\* two rows of different records, with a cast time and a cooldown that differ
C15_Witness ==
    /\ mpc = "written"
    /\ Len(spells) = 2
    /\ spells[1][1] = 7 /\ spells[2][1] = 100001
    /\ spells[1][9] = 3000 /\ spells[1][10] = 8000
    /\ Len(spells[1]) = 17 /\ Len(spells[2]) = 17
    /\ LOCALE_OFFSET = 7

\* C16: no failure on one record ends the run: while the records are
\* projected, no exception leaves main.
C16_RowFailureNeverAborts ==
    ~(mpc = "raised" /\ pc = "loaded" /\ lpc = "done")

\* the tables of a run
TableNames == {"SpellIcon", "SpellDuration", "SpellCastTimes", "SpellRange", "Spell"}

\* C17: a failure while one table is loaded ends that table only: when the
\* run has ended, a reader was constructed on every table, once.
C17_FatalLoadAbortsOnlyThatTable ==
    /\ \A i, j \in 1..Len(loaded) : loaded[i] = loaded[j] => i = j
    /\ mpc \in {"raised", "written"} => {loaded[i] : i \in 1..Len(loaded)} = TableNames

\* a table file with a valid tag and a header that states no records
ZeroRowTable(f) ==
    /\ Len(f) >= 20
    /\ SubSeq(f, 1, 4) = WDBC
    /\ UnpackU32(SubSeq(f, 5, 8)) = 0

\* the builder of the k-th satellite table has run
BuilderRan(k) == Len(loaded) > k \/ (Len(loaded) = k /\ mpc # "raised")
\* the builder of the k-th satellite table raised
BuilderRaised(k) == Len(loaded) = k /\ mpc = "raised"

\* C18: each of the four builders, on a table without rows, returns an empty
\* map and raises nothing.
C18_ZeroRowsGiveEmptyMap ==
    /\ ZeroRowTable(disk.SpellIcon) =>
         /\ ~BuilderRaised(1)
         /\ BuilderRan(1) => icon_map = <<>>
    /\ ZeroRowTable(disk.SpellDuration) =>
         /\ ~BuilderRaised(2)
         /\ BuilderRan(2) => duration_map = <<>>
    /\ ZeroRowTable(disk.SpellCastTimes) =>
         /\ ~BuilderRaised(3)
         /\ BuilderRan(3) => cast_time_map = <<>>
    /\ ZeroRowTable(disk.SpellRange) =>
         /\ ~BuilderRaised(4)
         /\ BuilderRan(4) => range_map = <<>>

\* all four tables without rows, all four builders have run, and a row was
\* emitted from the empty maps
C18_Witness ==
    /\ ZeroRowTable(disk.SpellIcon) /\ ZeroRowTable(disk.SpellDuration)
    /\ ZeroRowTable(disk.SpellCastTimes) /\ ZeroRowTable(disk.SpellRange)
    /\ mpc = "written"
    /\ icon_map = <<>> /\ duration_map = <<>> /\ cast_time_map = <<>> /\ range_map = <<>>
    /\ Len(spells) = 1

-----------------------------------------------------------------------------
(* Further properties of schema loading and of the locale slot *)

\* the definition document has no table named Spell
NoSpellTable == \A t \in 1..Len(xml) : xml[t].Name # "Spell"

\* C19: loading the schema from a document without the Spell table raises the
\* schema-missing error (ValueError); no layout, empty or other, is returned.
C19_MissingTableRaises ==
    NoSpellTable =>
      /\ xpc \in {"start", "raised ValueError"}
      /\ loc_map = <<>>

C19_Witness ==
    /\ xml = <<IconTable>>
    /\ xpc = "raised ValueError"
    /\ loc_map = <<>>

\* the first column of a localized block: what the schema gave for the field,
\* or the default of SPELL_FIELDS
BlockBase(field) ==
    CASE field = "Name" -> LocGet("Name", 119)
      [] field = "NameSubtext" -> LocGet("NameSubtext", 128)
      [] field = "Description" -> LocGet("Description", 137)

\* the column extract_spell reads a localized field from
ReadColumn(field) ==
    CASE field = "Name" -> SPELL_FIELDS.Name_enUS + LOCALE_OFFSET
      [] field = "NameSubtext" -> SPELL_FIELDS.NameSubtext_enUS + LOCALE_OFFSET
      [] field = "Description" -> SPELL_FIELDS.Description_enUS + LOCALE_OFFSET

\* C20: while rows are projected the slot is the one detection chose on the
\* name block, and each of name, rank and description is read at its own
\* block's first column plus that slot, a column of the block's 8 columns.
C20_OneSlotInsideEachBlock ==
    mpc \in {"extract", "written"} =>
      /\ LOCALE_OFFSET = best_off
      /\ loc_index = BlockBase("Name")
      /\ \A field \in {"Name", "NameSubtext", "Description"} :
           /\ ReadColumn(field) = BlockBase(field) + LOCALE_OFFSET
           /\ ReadColumn(field) >= BlockBase(field)
           /\ ReadColumn(field) <= BlockBase(field) + 7


-----------------------------------------------------------------------------
(* extract_spells of extrac_game_data.py: the projection that rejects rows *)

\* get_localized_string(record, start_field, locale_index)
get_localized_string(heap, record, start_field, locale_index) ==
    IF start_field + locale_index < Len(record)
    THEN Resolve(heap, record[start_field + locale_index + 1]) ELSE <<>>

\* any(ord(c) > 127 for c in name)
HighChars(name) == \E c \in 1..Len(name) : name[c] > 127

\* for test_field in [124, 127, 128, 36, 82]: the first alternative that is
\* longer than 2 characters and has no high character replaces the name
RECURSIVE AltName(_, _, _, _)
AltName(heap, record, name, fields) ==
    IF fields = <<>> THEN name
    ELSE LET alt_name == IF Head(fields) < Len(record)
                         THEN Resolve(heap, record[Head(fields) + 1]) ELSE <<>>
         IN IF alt_name # <<>> /\ Len(alt_name) > 2 /\ ~HighChars(alt_name)
            THEN alt_name
            ELSE AltName(heap, record, name, Tail(fields))

\* '(OLD)' in name or 'Test' in name or 'QA' in name
OldOrTest(name) ==
    \/ Contains(name, <<40, 79, 76, 68, 41>>)
    \/ Contains(name, <<84, 101, 115, 116>>)
    \/ Contains(name, <<81, 65>>)

\* the entry stored under str(spell_id), lines 176-190
GameEntry(record, spell_id, name, rank, icons) ==
    LET icon_spellbook == IF Len(record) > 121 THEN record[122] ELSE 0
        icon_target == IF Len(record) > 122 THEN record[123] ELSE 0
        icon_id == IF icon_target \in DOMAIN icons THEN icon_target ELSE icon_spellbook
    IN [id |-> spell_id,
        name |-> Strip(name),
        rank |-> IF rank # <<>> THEN Strip(rank) ELSE NoneStr,
        icon_id |-> icon_id,
        icon_name |-> IF icon_id \in DOMAIN icons THEN icons[icon_id] ELSE NoneStr]

\* dbc = DBCReader(spell_file) has returned; spells = {}, the counters are 0
GameStart ==
    /\ script = "extrac_game_data"
    /\ pc = "loaded"
    /\ gpc = "idle"
    /\ gpc' = "loop"
    /\ grow' = 0
    /\ gspells' = <<>>
    /\ no_name_count' = 0
    /\ non_english_count' = 0
    /\ UNCHANGED notGameVars

\* DBCReader(spell_file) raised: the exception leaves extract_spells
GameReaderRaised ==
    /\ script = "extrac_game_data"
    /\ pc = "raised"
    /\ gpc = "idle"
    /\ gpc' = "raised"
    /\ UNCHANGED <<grow, gspells, no_name_count, non_english_count, notGameVars>>

\* one iteration of for record in dbc.records, lines 147-190
GameRecord ==
    /\ gpc = "loop"
    /\ grow < Len(records)
    /\ LET record == records[grow + 1] IN
       IF Len(record) = 0
       THEN /\ gpc' = "raised"
            /\ UNCHANGED <<grow, gspells, no_name_count, non_english_count>>
       ELSE
         LET spell_id == record[1]
             name == get_localized_string(string_block, record, 120, 0)
             rank == get_localized_string(string_block, record, 133, 0)
             name_en == IF HighChars(name)
                        THEN AltName(string_block, record, name, <<124, 127, 128, 36, 82>>)
                        ELSE name
         IN /\ grow' = grow + 1
            /\ gpc' = gpc
            /\ IF spell_id = 0 \/ spell_id > 100000
               THEN UNCHANGED <<gspells, no_name_count, non_english_count>>
               ELSE IF name = <<>> \/ Len(name) < 2
                 THEN /\ no_name_count' = no_name_count + 1
                      /\ UNCHANGED <<gspells, non_english_count>>
                 ELSE /\ non_english_count' =
                           IF HighChars(name) THEN non_english_count + 1
                           ELSE non_english_count
                      /\ gspells' =
                           IF OldOrTest(name_en) THEN gspells
                           ELSE MapPut(gspells, Digits(spell_id),
                                       GameEntry(record, spell_id, name_en, rank, icon_map))
                      /\ UNCHANGED no_name_count
    /\ UNCHANGED notGameVars

\* the loop is over: return spells
GameReturn ==
    /\ gpc = "loop"
    /\ grow = Len(records)
    /\ gpc' = "returned"
    /\ UNCHANGED <<grow, gspells, no_name_count, non_english_count, notGameVars>>

\* The heap of the generated tables:
\* offset 0 "", 1 "Axe", 5 "Test", 10 "X", 12 "Fée", 17 "R1"
GameHeap ==
    <<0, 65, 120, 101, 0, 84, 101, 115, 116, 0, 88, 0, 70, 195, 169, 101, 0, 82, 49, 0>>

\* <<id, name offset, offset in column 127>> of the generated rows
GameRowKinds ==
    {<<7, 1, 0>>, <<8, 1, 0>>, <<0, 1, 0>>, <<100001, 1, 0>>, <<7, 10, 0>>,
     <<7, 5, 0>>, <<7, 12, 1>>, <<7, 12, 0>>}

\* the bytes of a generated row of fc columns
GameRow(fc, kind) ==
    SubSeq(PackCells(<<<<0, kind[1]>>, <<120, kind[2]>>, <<121, 3>>, <<122, 9>>,
                       <<127, kind[3]>>, <<133, 17>>>>, 1, 0, 134),
           1, 4 * fc)

RECURSIVE GameRows(_, _)
GameRows(fc, kinds) ==
    IF kinds = <<>> THEN <<>> ELSE GameRow(fc, Head(kinds)) \o GameRows(fc, Tail(kinds))

\* field counts of the generated tables: all columns, no rank column, no columns
GameWidths == {134, 122, 0}

GameFile(tag, n, fc, rows) ==
    tag \o PackU32(n) \o PackU32(fc) \o PackU32(4 * fc) \o PackU32(Len(GameHeap))
        \o rows \o GameHeap

InitGameData ==
    /\ \E tag \in Tags, fc \in GameWidths, n \in 0..MaxSpells :
         \E kinds \in [1..n -> IF fc = 0 \/ tag # WDBC THEN {<<7, 1, 0>>} ELSE GameRowKinds] :
           file = GameFile(tag, n, fc, GameRows(fc, kinds))
    /\ script = "extrac_game_data"
    /\ ReaderNew
    /\ icon_map \in {<<>>, [k \in {9} |-> <<70>>]}
    /\ disk = <<>>
    /\ mpc = "idle"
    /\ merror = "none"
    /\ loaded = <<>>
    /\ duration_map = <<>>
    /\ cast_time_map = <<>>
    /\ range_map = <<>>
    /\ LOCALE_OFFSET = 0
    /\ spells = <<>>
    /\ skipped = 0
    /\ mrow = 0
    /\ SchemaIdle
    /\ LocaleIdle
    /\ DescIdle
    /\ LaterIdle

NextGameData ==
    \/ ReadFile_extrac_game_data
    \/ GameStart
    \/ GameReaderRaised
    \/ GameRecord
    \/ GameReturn

SpecGameData == InitGameData /\ [][NextGameData]_vars

\* C25: after a table is projected, the emitted rows and the skip counters
\* add up to the loaded records: every record is either emitted or counted
\* by the one skip counter, no_name_count.
C25_SkipsAccounted ==
    gpc = "returned" =>
      Cardinality(DOMAIN gspells) + no_name_count = Len(records)

-----------------------------------------------------------------------------
(* DBCReader.get_string of extract_spells.py, called by concurrent callers *)
(* on one reader.  A caller runs the statements of get_string one at a     *)
(* time; the interpreter runs one statement of one caller at a time, so a  *)
(* test or an assignment of the dict is one step.                          *)

\* calls of one caller
MaxCalls == 2

Callers == {"a", "b"}

\* the offsets of the generated calls
CallOffsets == {-1, 0, 1, 2, 3}

\* a caller enters get_string(offset)
CallGetString(t) ==
    /\ pc = "loaded"
    /\ tpc[t] = "idle"
    /\ tcalls[t] < MaxCalls
    /\ \E offset \in CallOffsets : toffset' = [toffset EXCEPT ![t] = offset]
    /\ tcalls' = [tcalls EXCEPT ![t] = tcalls[t] + 1]
    /\ tpc' = [tpc EXCEPT ![t] = "if_cached"]
    /\ UNCHANGED <<tresult, tret, stores, readerVars, notCallerVars>>

\* if offset in self._string_cache:
TestCache(t) ==
    /\ tpc[t] = "if_cached"
    /\ tpc' = [tpc EXCEPT ![t] = IF toffset[t] \in DOMAIN string_cache
                                 THEN "return_cached" ELSE "resolve"]
    /\ UNCHANGED <<toffset, tresult, tret, tcalls, stores, readerVars, notCallerVars>>

\* return self._string_cache[offset]; KeyError if the entry is not there
ReturnCached(t) ==
    /\ tpc[t] = "return_cached"
    /\ IF toffset[t] \in DOMAIN string_cache
       THEN /\ tret' = [tret EXCEPT ![t] = [offset |-> toffset[t],
                                            result |-> string_cache[toffset[t]]]]
            /\ tpc' = [tpc EXCEPT ![t] = "idle"]
       ELSE /\ tpc' = [tpc EXCEPT ![t] = "raised"]
            /\ UNCHANGED tret
    /\ UNCHANGED <<toffset, tresult, tcalls, stores, readerVars, notCallerVars>>

\* lines 131-137: the range test, find and decode, which read the heap only;
\* "" is returned without an entry in the cache
ResolveUncached(t) ==
    /\ tpc[t] = "resolve"
    /\ IF \/ toffset[t] >= Len(string_block) \/ toffset[t] < 0
          \/ FindNull(string_block, toffset[t]) = -1
       THEN /\ tret' = [tret EXCEPT ![t] = [offset |-> toffset[t], result |-> <<>>]]
            /\ tpc' = [tpc EXCEPT ![t] = "idle"]
            /\ UNCHANGED tresult
       ELSE /\ tresult' = [tresult EXCEPT ![t] =
                 Utf8Decode(SubSeq(string_block, toffset[t] + 1,
                                   FindNull(string_block, toffset[t])), 1)]
            /\ tpc' = [tpc EXCEPT ![t] = "store"]
            /\ UNCHANGED tret
    /\ UNCHANGED <<toffset, tcalls, stores, readerVars, notCallerVars>>

\* self._string_cache[offset] = result; return result
StoreShifted(t) ==
    /\ tpc[t] = "store"
    /\ string_cache' = MapPut(string_cache, toffset[t] + 1, tresult[t])
    /\ stores' = stores + 1
    /\ tret' = [tret EXCEPT ![t] = [offset |-> toffset[t], result |-> tresult[t]]]
    /\ tpc' = [tpc EXCEPT ![t] = "idle"]
    /\ UNCHANGED <<toffset, tresult, tcalls, script, file, pc, error, records,
                   string_block, field_count, ret, notCallerVars>>
Store(t) ==
    /\ tpc[t] = "store"
    /\ string_cache' = MapPut(string_cache, toffset[t], tresult[t])
    /\ stores' = stores + 1
    /\ tret' = [tret EXCEPT ![t] = [offset |-> toffset[t], result |-> tresult[t]]]
    /\ tpc' = [tpc EXCEPT ![t] = "idle"]
    /\ UNCHANGED <<toffset, tresult, tcalls, script, file, pc, error, records,
                   string_block, field_count, ret, notCallerVars>>

\* the tables the callers' reader is constructed on: the heap "AB", "CD" with
\* two records, and a heap whose last string has no terminator
CallerFiles == {ScenarioFile, PackFile(WDBC, <<>>, 0, 0, <<65, 0, 66>>)}

InitCallers ==
    /\ file \in CallerFiles
    /\ script = "extract_spells"
    /\ ReaderNew
    /\ tpc = [t \in Callers |-> "idle"]
    /\ toffset = [t \in Callers |-> 0]
    /\ tresult = [t \in Callers |-> <<>>]
    /\ tret = [t \in Callers |-> NoRet]
    /\ tcalls = [t \in Callers |-> 0]
    /\ stores = 0
    /\ SchemaIdle
    /\ LocaleIdle
    /\ MainIdle
    /\ DescIdle
    /\ GameIdle
    /\ BuildersIdle
    /\ PoolIdle
    /\ SmartIdle

NextCallers ==
    \/ ReadFile_extract_spells
    \/ \E t \in Callers :
         \/ CallGetString(t)
         \/ TestCache(t)
         \/ ReturnCached(t)
         \/ ResolveUncached(t)
         \/ Store(t)

SpecCallers == InitCallers /\ [][NextCallers]_vars

\* C27: whatever the callers' calls and their interleaving, every returned
\* string and every cached string is what uncached resolution of its offset
\* against the heap gives, no call fails, and the records and the heap stay
\* what the constructor read from the file.
C27_CacheNeverChangesResult ==
    pc = "loaded" =>
      /\ \A t \in Callers :
           /\ tpc[t] # "raised"
           /\ tret[t] # NoRet => tret[t].result = Resolve(string_block, tret[t].offset)
      /\ \A o \in DOMAIN string_cache : string_cache[o] = Resolve(string_block, o)
      /\ records = ReadDBC(file).records
      /\ string_block = ReadDBC(file).string_block

\* a race: both callers resolved offset 3 and both stored it, one entry is in
\* the cache, and both returned "CD"
C27_Witness ==
    /\ pc = "loaded"
    /\ stores = 2
    /\ DOMAIN string_cache = {3}
    /\ \A t \in Callers : tpc[t] = "idle" /\ tcalls[t] = 1
    /\ \A t \in Callers : tret[t] = [offset |-> 3, result |-> <<67, 68>>]

-----------------------------------------------------------------------------
(* The lookup builders of extract_spells.py, run as four tasks in any      *)
(* order and interleaving.  Each builder constructs its own DBCReader and  *)
(* fills its own dict, one record at a time.                               *)

Builders == {"SpellIcon", "SpellDuration", "SpellCastTimes", "SpellRange"}

\* the highest column a builder reads of a record: r[1], and r[2] for ranges
LastColumn(b) == IF b = "SpellRange" THEN 2 ELSE 1

\* what one record adds to a builder's map
MapWithRecord(b, m, heap, r) ==
    IF b = "SpellIcon"
    THEN LET texture_path == Resolve(heap, r[2]) IN
           IF texture_path # <<>> THEN MapPut(m, r[1], IconName(texture_path)) ELSE m
    ELSE IF b = "SpellRange"
      THEN MapPut(m, r[1], <<get_float(r[2]), get_float(r[3])>>)
      ELSE MapPut(m, r[1], r[2])

\* dbc = DBCReader(dbc_path / '<table>.dbc'), and the empty map
BuilderOpen(b) ==
    /\ bpc[b] = "new"
    /\ LET dbc == ReadDBC(disk[b]) IN
         /\ bpc' = [bpc EXCEPT ![b] = IF dbc.ok THEN "loop" ELSE "raised"]
         /\ brecords' = [brecords EXCEPT ![b] = dbc.records]
         /\ bheap' = [bheap EXCEPT ![b] = dbc.string_block]
    /\ UNCHANGED <<bpos, bmap, notBuilderVars>>

\* one record of the builder's loop or comprehension; IndexError when the
\* record lacks a column
BuilderRecordShared(b) ==
    /\ bpc[b] = "loop"
    /\ bpos[b] < Len(brecords[b])
    /\ LET r == brecords[b][bpos[b] + 1] IN
         IF Len(r) <= LastColumn(b)
         THEN /\ bpc' = [bpc EXCEPT ![b] = "raised"]
              /\ UNCHANGED <<bpos, bmap>>
         ELSE /\ bmap' = [bmap EXCEPT !["SpellIcon"] =
                            MapWithRecord(b, bmap["SpellIcon"], bheap[b], r)]
              /\ bpos' = [bpos EXCEPT ![b] = bpos[b] + 1]
              /\ UNCHANGED bpc
    /\ UNCHANGED <<brecords, bheap, notBuilderVars>>
BuilderRecord(b) ==
    /\ bpc[b] = "loop"
    /\ bpos[b] < Len(brecords[b])
    /\ LET r == brecords[b][bpos[b] + 1] IN
         IF Len(r) <= LastColumn(b)
         THEN /\ bpc' = [bpc EXCEPT ![b] = "raised"]
              /\ UNCHANGED <<bpos, bmap>>
         ELSE /\ bmap' = [bmap EXCEPT ![b] = MapWithRecord(b, bmap[b], bheap[b], r)]
              /\ bpos' = [bpos EXCEPT ![b] = bpos[b] + 1]
              /\ UNCHANGED bpc
    /\ UNCHANGED <<brecords, bheap, notBuilderVars>>

\* return the map
BuilderReturn(b) ==
    /\ bpc[b] = "loop"
    /\ bpos[b] = Len(brecords[b])
    /\ bpc' = [bpc EXCEPT ![b] = "returned"]
    /\ UNCHANGED <<brecords, bheap, bpos, bmap, notBuilderVars>>

\* tables with ids that occur twice, in one table and across tables
Repeated ==
    [SpellIcon |-> TableFile(<<<<1, 1>>, <<1, 5>>>>, 2, IconHeap),
     SpellDuration |-> TableFile(<<<<1, 1500, 0>>, <<2, 7, 0>>>>, 3, <<>>),
     SpellCastTimes |-> TableFile(<<<<1, 3000>>, <<2, 8>>>>, 2, <<>>),
     SpellRange |-> TableFile(<<<<1, 0, 1084227584>>>>, 3, <<>>)]

InitBuilders ==
    /\ disk \in Satellites \cup {Repeated}
    /\ bpc = [b \in Builders |-> "new"]
    /\ brecords = [b \in Builders |-> <<>>]
    /\ bheap = [b \in Builders |-> <<>>]
    /\ bpos = [b \in Builders |-> 0]
    /\ bmap = [b \in Builders |-> <<>>]
    /\ mpc = "idle"
    /\ merror = "none"
    /\ loaded = <<>>
    /\ icon_map = <<>>
    /\ duration_map = <<>>
    /\ cast_time_map = <<>>
    /\ range_map = <<>>
    /\ LOCALE_OFFSET = 0
    /\ spells = <<>>
    /\ skipped = 0
    /\ mrow = 0
    /\ script = "extract_spells"
    /\ file = <<>>
    /\ ReaderNew
    /\ SchemaIdle
    /\ LocaleIdle
    /\ DescIdle
    /\ GameIdle
    /\ CallersIdle
    /\ PoolIdle
    /\ SmartIdle

NextBuilders ==
    \E b \in Builders :
      \/ BuilderOpen(b)
      \/ BuilderRecord(b)
      \/ BuilderReturn(b)

SpecBuilders == InitBuilders /\ [][NextBuilders]_vars

\* what a builder returns when it runs alone on its file, as main runs it
BuiltAlone(b, f) ==
    LET dbc == ReadDBC(f) IN
    IF ~dbc.ok \/ LacksColumn(dbc.records, LastColumn(b))
    THEN [raised |-> TRUE, map |-> <<>>]
    ELSE [raised |-> FALSE,
          map |-> CASE b = "SpellIcon" ->
                         IconMapOf(dbc.records, dbc.string_block, Len(dbc.records))
                    [] b = "SpellRange" -> RangeMapOf(dbc.records, Len(dbc.records))
                    [] OTHER -> PairMapOf(dbc.records, Len(dbc.records))]

\* C28: in whatever order and interleaving the four builders run, each
\* returns the map it returns when it runs alone on its file, and raises
\* exactly when it raises alone.
C28_BuildersIndependent ==
    \A b \in Builders :
      /\ bpc[b] = "returned" =>
           ~BuiltAlone(b, disk[b]).raised /\ bmap[b] = BuiltAlone(b, disk[b]).map
      /\ bpc[b] = "raised" => BuiltAlone(b, disk[b]).raised

\* the range builder has returned its map while the icon builder is inside
\* its loop and the other two have not started
C28_Witness ==
    /\ bpc["SpellRange"] = "returned"
    /\ bmap["SpellRange"] # <<>>
    /\ bmap["SpellRange"] = BuiltAlone("SpellRange", disk.SpellRange).map
    /\ bpc["SpellIcon"] = "loop" /\ bpos["SpellIcon"] = 2
    /\ bpc["SpellDuration"] = "new"
    /\ bpc["SpellCastTimes"] = "new"

-----------------------------------------------------------------------------
(* batch_convert of convert_blp_webp.py: the found files are submitted to  *)
(* a ThreadPoolExecutor, whose workers take the submitted calls in the     *)
(* order of submission.                                                    *)

\* found files
MaxFiles == 5

\* ThreadPoolExecutor(max_workers=4)
MaxWorkers == 4

Running == {f \in 1..blp_files : future[f] = "running"}

\* executor.submit(convert_blp_to_webp, blp_file, output_dir) for the next
\* file of blp_files
Submit ==
    /\ ppc = "submit"
    /\ pnext < blp_files
    /\ future' = [future EXCEPT ![pnext + 1] = "queued"]
    /\ submits' = [submits EXCEPT ![pnext + 1] = submits[pnext + 1] + 1]
    /\ pnext' = pnext + 1
    /\ UNCHANGED <<blp_files, unreadable, ppc, results, successful, notPoolVars>>

\* the list of futures is complete: results = [f.result() for f in futures]
\* begins
SubmitDone ==
    /\ ppc = "submit"
    /\ pnext = blp_files
    /\ ppc' = "collect"
    /\ pnext' = 0
    /\ UNCHANGED <<blp_files, unreadable, future, submits, results, successful,
                   notPoolVars>>

\* a worker that is free takes the oldest submitted call
StartConversion(f) ==
    /\ future[f] = "queued"
    /\ \A g \in 1..(f - 1) : future[g] # "queued"
    /\ Cardinality(Running) < MaxWorkers
    /\ future' = [future EXCEPT ![f] = "running"]
    /\ UNCHANGED <<blp_files, unreadable, ppc, pnext, submits, results, successful,
                   notPoolVars>>

\* convert_blp_to_webp returns: True, or False after an Exception
FinishConversionAlsoNext(f) ==
    /\ future[f] = "running"
    /\ future' = [g \in 1..blp_files |->
                    IF g = f THEN (IF f \in unreadable THEN "False" ELSE "True")
                    ELSE IF g = f + 1 /\ f \in unreadable /\ future[g] = "queued"
                      THEN "False" ELSE future[g]]
    /\ UNCHANGED <<blp_files, unreadable, ppc, pnext, submits, results, successful,
                   notPoolVars>>
FinishConversion(f) ==
    /\ future[f] = "running"
    /\ future' = [future EXCEPT ![f] = IF f \in unreadable THEN "False" ELSE "True"]
    /\ UNCHANGED <<blp_files, unreadable, ppc, pnext, submits, results, successful,
                   notPoolVars>>

\* f.result() of the next future, which waits until its call has returned
Collect ==
    /\ ppc = "collect"
    /\ pnext < blp_files
    /\ future[pnext + 1] \in {"True", "False"}
    /\ results' = Append(results, future[pnext + 1] = "True")
    /\ pnext' = pnext + 1
    /\ UNCHANGED <<blp_files, unreadable, ppc, future, submits, successful, notPoolVars>>

\* the with block is left (shutdown waits for the workers);
\* successful = sum(results) is printed
Report ==
    /\ ppc = "collect"
    /\ pnext = blp_files
    /\ Running = {}
    /\ successful' = Cardinality({k \in 1..Len(results) : results[k]})
    /\ ppc' = "done"
    /\ UNCHANGED <<blp_files, unreadable, pnext, future, submits, results, notPoolVars>>

InitPool ==
    /\ blp_files \in 0..MaxFiles
    /\ unreadable \in SUBSET (1..blp_files)
    /\ ppc = "submit"
    /\ pnext = 0
    /\ future = [f \in 1..blp_files |-> "none"]
    /\ submits = [f \in 1..blp_files |-> 0]
    /\ results = <<>>
    /\ successful = 0
    /\ script = "extract_spells"
    /\ file = <<>>
    /\ ReaderNew
    /\ SchemaIdle
    /\ LocaleIdle
    /\ MainIdle
    /\ DescIdle
    /\ GameIdle
    /\ CallersIdle
    /\ BuildersIdle
    /\ SmartIdle

NextPool ==
    \/ Submit
    \/ SubmitDone
    \/ \E f \in 1..blp_files : StartConversion(f)
    \/ \E f \in 1..blp_files : FinishConversion(f)
    \/ Collect
    \/ Report

SpecPool == InitPool /\ [][NextPool]_vars

\* the main thread and the workers keep running
SpecPoolFair == SpecPool /\ WF_vars(NextPool)

\* at most 4 conversions run, no file is submitted twice, a conversion
\* returns failure exactly for an unreadable file whatever the other files
\* are, and the finished batch has submitted every file once, has a result
\* for every file and counts the conversions that returned success
PoolSafe ==
    /\ Cardinality(Running) <= MaxWorkers
    /\ \A f \in 1..blp_files :
         /\ submits[f] <= 1
         /\ future[f] = "False" => f \in unreadable
         /\ future[f] = "True" => f \notin unreadable
    /\ ppc = "done" =>
         /\ \A f \in 1..blp_files : submits[f] = 1 /\ future[f] \in {"True", "False"}
         /\ Len(results) = blp_files
         /\ successful = Cardinality({f \in 1..blp_files : future[f] = "True"})
         /\ successful = blp_files - Cardinality(unreadable)

\* C29: every found file is submitted exactly once to a pool of at most 4
\* workers, a failed conversion returns failure for its own file only, and
\* the batch ends, after all conversions have finished, with the number of
\* successful conversions as its count.
C29_BatchConverts == []PoolSafe /\ <>(ppc = "done")

\* five files, one more than there are workers, the second and the fifth
\* unreadable: the finished batch has a result for each and counts 3
C29_Witness ==
    /\ ppc = "done"
    /\ blp_files = 5
    /\ unreadable = {2, 5}
    /\ successful = 3
    /\ results = <<TRUE, FALSE, TRUE, TRUE, FALSE>>

-----------------------------------------------------------------------------
(* update_spell_data of extract_spells_smart.py.  A dict key is             *)
(* <<"int", n>> for the int n and <<"str", n>> for the str str(n); a JSON   *)
(* file holds str keys only.                                                *)

\* runs of update_spell_data
MaxRuns == 2

IntKey(n) == <<"int", n>>
StrKey(n) == <<"str", n>>

\* json.dump then json.load of a dict: every key comes back as a str
JsonDump(d) ==
    [k \in {StrKey(q[2]) : q \in DOMAIN d} |->
        d[CHOOSE q \in DOMAIN d : q[2] = k[2]]]

Absent == [exists |-> FALSE, data |-> <<>>]

\* load_or_create_json(file_path, default)
load_or_create_json(json_file) == IF json_file.exists THEN json_file.data ELSE <<>>

\* DBCReader(path) of extract_spells_smart.py on the bytes f
SmartReadDBC(f) ==
    LET header == Read(f, 0, 20)
        failed(e) == [ok |-> FALSE, error |-> e, records |-> <<>>,
                      field_count |-> 0, string_block |-> <<>>]
    IN IF Len(header) # 20 THEN failed("struct.error")
       ELSE LET h == UnpackHeader(header) IN
         IF BadMagic(h.magic) THEN failed("ValueError")
         ELSE LET r == TruncatingRecords(f, 20, h.record_count, h.field_count,
                                         h.record_size, <<>>) IN
           [ok |-> TRUE, error |-> "none", records |-> r.records,
            field_count |-> h.field_count,
            string_block |-> Read(f, r.pos, h.string_block_size)]

\* get_string of extract_spells_smart.py
SmartGetString(heap, offset) ==
    IF offset < Len(heap) /\ FindNull(heap, offset) # -1
    THEN Utf8Decode(SubSeq(heap, offset + 1, FindNull(heap, offset)), 1)
    ELSE <<>>

\* extract_spell_icons(): int keys
RECURSIVE SmartIcons(_, _, _)
SmartIcons(recs, heap, n) ==
    IF n = 0 THEN <<>>
    ELSE LET texture_path == SmartGetString(heap, recs[n][2])
             before == SmartIcons(recs, heap, n - 1)
         IN IF texture_path # <<>>
            THEN MapPut(before, IntKey(recs[n][1]), IconName(texture_path))
            ELSE before

OfRecall == <<32, 111, 102, 32, 82, 101, 99, 97, 108, 108>>
OldMark == <<40, 79, 76, 68, 41>>
UnknownSpell == <<85, 110, 107, 110, 111, 119, 110, 32, 83, 112, 101, 108, 108>>

EndsWith(name, suffix) ==
    Len(name) >= Len(suffix)
      /\ SubSeq(name, Len(name) - Len(suffix) + 1, Len(name)) = suffix

\* the fallback loop of find_best_spell_name, from field i on
RECURSIVE AnyName(_, _, _)
AnyName(record, heap, i) ==
    IF i >= Min(50, Len(record)) THEN UnknownSpell
    ELSE LET name == SmartGetString(heap, record[i + 1]) IN
      IF name # <<>> /\ Len(name) > 3 /\ ~Contains(name, OldMark)
           /\ ~Contains(name, OfRecall)
      THEN name ELSE AnyName(record, heap, i + 1)

\* the loop of find_best_spell_name over test_fields
RECURSIVE BestName(_, _, _)
BestName(record, heap, fields) ==
    IF fields = <<>> THEN AnyName(record, heap, 0)
    ELSE LET name == IF Head(fields) < Len(record)
                     THEN SmartGetString(heap, record[Head(fields) + 1]) ELSE <<>>
         IN IF name # <<>> /\ Len(name) > 3 /\ name[1] # 32
                 /\ ~EndsWith(name, OldMark) /\ ~Contains(name, OfRecall)
            THEN name ELSE BestName(record, heap, Tail(fields))

find_best_spell_name(record, heap) ==
    BestName(record, heap, <<1, 4, 28, 29, 127, 36, 82>>)

\* for icon_field in [21, 22, 23, 24, 25]: the first that is in icon_mapping
RECURSIVE IconIdOf(_, _, _)
IconIdOf(record, icons, fields) ==
    IF fields = <<>> THEN 0
    ELSE IF Head(fields) < Len(record) /\ IntKey(record[Head(fields) + 1]) \in DOMAIN icons
      THEN record[Head(fields) + 1]
      ELSE IconIdOf(record, icons, Tail(fields))

\* icon_mapping.get(icon_id)
IconNameOf(icons, icon_id) ==
    IF IntKey(icon_id) \in DOMAIN icons THEN icons[IntKey(icon_id)] ELSE NoneStr

\* SpellIcon.dbc of the runs: icon 9 is "I\F"
SmartIconFile == TableFile(<<<<9, 1>>>>, 2, IconHeap)

\* lines 108-129: the two JSON files are loaded, the icon mapping is
\* extracted and saved when the loaded one is empty, Spell.dbc is read
SmartStart ==
    /\ spc = "idle"
    /\ sruns < MaxRuns
    /\ spells_before' = spells_json
    /\ spells_data' = load_or_create_json(spells_json)
    /\ LET loaded_icons == load_or_create_json(icons_json)
           icon_dbc == SmartReadDBC(SmartIconFile)
           extracted == SmartIcons(icon_dbc.records, icon_dbc.string_block,
                                   Len(icon_dbc.records))
       IN IF loaded_icons = <<>>
          THEN /\ icon_mapping' = extracted
               /\ icons_json' = [exists |-> TRUE, data |-> JsonDump(extracted)]
          ELSE /\ icon_mapping' = loaded_icons
               /\ UNCHANGED icons_json
    /\ LET spell_dbc == SmartReadDBC(file) IN
         /\ IF spell_dbc.ok
            THEN Loaded(spell_dbc.records, spell_dbc.field_count, spell_dbc.string_block)
            ELSE Raise(spell_dbc.error, <<>>, 0)
         /\ spc' = IF spell_dbc.ok THEN "loop" ELSE "raised"
    /\ spos' = 0
    /\ new_count' = 0
    /\ updated_count' = 0
    /\ UNCHANGED <<spells_json, sruns, script, file, string_cache, ret, notSmartVars>>

\* one iteration of for record in spell_dbc.records, lines 131-166
SmartRecord ==
    /\ spc = "loop"
    /\ spos < Len(records)
    /\ LET record == records[spos + 1] IN
       IF Len(record) = 0
       THEN /\ spc' = "raised"
            /\ UNCHANGED <<spos, spells_data, new_count, updated_count>>
       ELSE
         LET spell_id == record[1]
             spell_name == find_best_spell_name(record, string_block)
             icon_id == IconIdOf(record, icon_mapping, <<21, 22, 23, 24, 25>>)
             spell_key == StrKey(spell_id)
         IN /\ spos' = spos + 1
            /\ spc' = spc
            /\ IF spell_id = 0 \/ spell_id > 100000
               THEN UNCHANGED <<spells_data, new_count, updated_count>>
               ELSE IF spell_key \in DOMAIN spells_data
                 THEN IF spells_data[spell_key].name # spell_name
                   THEN /\ spells_data' =
                             [spells_data EXCEPT ![spell_key] =
                                [@ EXCEPT !.name = spell_name,
                                          !.icon_id = icon_id,
                                          !.icon_name = IconNameOf(icon_mapping, icon_id)]]
                        /\ updated_count' = updated_count + 1
                        /\ UNCHANGED new_count
                   ELSE UNCHANGED <<spells_data, new_count, updated_count>>
                 ELSE /\ spells_data' =
                           MapPut(spells_data, spell_key,
                                  [id |-> spell_id, name |-> spell_name,
                                   icon_id |-> icon_id,
                                   icon_name |-> IconNameOf(icon_mapping, icon_id)])
                      /\ new_count' = new_count + 1
                      /\ UNCHANGED updated_count
    /\ UNCHANGED <<spells_json, icons_json, icon_mapping, sruns, spells_before,
                   readerVars, notSmartVars>>

\* save_json(spells_data, spells_file); the counts are printed
SmartSave ==
    /\ spc = "loop"
    /\ spos = Len(records)
    /\ spells_json' = [exists |-> TRUE, data |-> JsonDump(spells_data)]
    /\ sruns' = sruns + 1
    /\ spc' = "idle"
    /\ UNCHANGED <<icons_json, spos, spells_data, icon_mapping, new_count,
                   updated_count, spells_before, readerVars, notSmartVars>>

\* The heap of the generated tables: offset 0 "", 1 "Axes", 6 "Bolt", 11 "Ax"
SmartHeap == <<0, 65, 120, 101, 115, 0, 66, 111, 108, 116, 0, 65, 120, 0>>

\* <<id, offset in column 1, value of column 21>> of the generated rows
SmartRowKinds ==
    {<<7, 1, 9>>, <<7, 6, 9>>, <<8, 1, 9>>, <<0, 1, 9>>, <<7, 11, 0>>}

SmartRow(kind) ==
    PackCells(<<<<0, kind[1]>>, <<1, kind[2]>>, <<21, kind[3]>>>>, 1, 0, 22)

RECURSIVE SmartRows(_)
SmartRows(kinds) ==
    IF kinds = <<>> THEN <<>> ELSE SmartRow(Head(kinds)) \o SmartRows(Tail(kinds))

SmartEntry(id, name, icon_id, icon_name) ==
    [id |-> id, name |-> name, icon_id |-> icon_id, icon_name |-> icon_name]

\* spells.json before the first run: absent, or with an entry of a spell that
\* is not in the table, of spell 7 as a first run leaves it, or of spell 7
\* under another name
SmartSpellFiles ==
    {Absent,
     [exists |-> TRUE,
      data |-> [k \in {StrKey(5)} |-> SmartEntry(5, <<66, 111, 108, 116>>, 0, NoneStr)]],
     [exists |-> TRUE,
      data |-> [k \in {StrKey(7)} |-> SmartEntry(7, <<65, 120, 101, 115>>, 9, <<70>>)]],
     [exists |-> TRUE,
      data |-> [k \in {StrKey(7)} |-> SmartEntry(7, <<66, 111, 108, 116>>, 0, NoneStr)]]}

\* icon_mapping.json before the first run: absent, or as a run saved it
SmartIconFiles ==
    {Absent, [exists |-> TRUE, data |-> [k \in {StrKey(9)} |-> <<70>>]]}

InitSmart ==
    /\ \E tag \in Tags, n \in 0..MaxSpells :
         \E kinds \in [1..n -> IF tag = WDBC THEN SmartRowKinds ELSE {<<7, 1, 9>>}] :
           file = tag \o PackU32(n) \o PackU32(22) \o PackU32(88)
                      \o PackU32(Len(SmartHeap)) \o SmartRows(kinds) \o SmartHeap
    /\ spells_json \in SmartSpellFiles
    /\ icons_json \in SmartIconFiles
    /\ spc = "idle"
    /\ spos = 0
    /\ spells_data = <<>>
    /\ icon_mapping = <<>>
    /\ new_count = 0
    /\ updated_count = 0
    /\ sruns = 0
    /\ spells_before = Absent
    /\ script = "extract_spells_smart"
    /\ ReaderNew
    /\ SchemaIdle
    /\ LocaleIdle
    /\ MainIdle
    /\ DescIdle
    /\ GameIdle
    /\ CallersIdle
    /\ BuildersIdle
    /\ PoolIdle

NextSmart ==
    \/ SmartStart
    \/ SmartRecord
    \/ SmartSave

SpecSmart == InitSmart /\ [][NextSmart]_vars

\* the ids of the valid records of the loaded table, and the names resolved
\* for an id
TableIds ==
    {records[k][1] : k \in {q \in 1..Len(records) :
                              records[q][1] # 0 /\ records[q][1] <= 100000}}
ResolvedNames(id) ==
    {find_best_spell_name(records[k], string_block) :
       k \in {q \in 1..Len(records) : records[q][1] = id}}

\* C30: a second run on the same table and icon mapping adds 0 entries,
\* updates 0 entries and leaves the map as it was; no run deletes an entry,
\* and a run leaves alone every entry whose id is not in the table or whose
\* stored name is the name resolved for it.
C30_UpdateIdempotent ==
    (spc = "idle" /\ sruns >= 1) =>
      /\ DOMAIN spells_before.data \subseteq DOMAIN spells_json.data
      /\ \A key \in DOMAIN spells_before.data :
           (key[2] \notin TableIds
              \/ ResolvedNames(key[2]) = {spells_before.data[key].name})
             => spells_json.data[key] = spells_before.data[key]
      /\ sruns = 2 =>
           /\ new_count = 0
           /\ updated_count = 0
           /\ spells_json = spells_before

-----------------------------------------------------------------------------
(* Further properties of detect_locale_offset *)

\* what slot j of a record resolves to, "" when the record has no such column
SlotTextOf(heap, li, record, j) ==
    IF li + j < Len(record) THEN Resolve(heap, record[li + j + 1]) ELSE <<>>

\* the number of records of recs whose slot j holds a string that counts
ScoreOf(heap, li, recs, j) ==
    Cardinality({r \in 1..Len(recs) : Scores1(SlotTextOf(heap, li, recs[r], j))})

\* the records detection samples
SampleOf(recs) == SubSeq(recs, 1, Min(SampleLimit, Len(recs)))

\* C21: detection returns a slot in 0..7 whose score is the maximum over the
\* 8 slots, the lowest such slot, and slot 0 when every slot scores 0; the
\* score of a slot is the number of sampled records that count for it.
C21_FirstMaximalSlot ==
    lpc = "done" =>
      /\ best_off \in 0..7
      /\ \A i \in 0..7 :
           scores[i + 1] = ScoreOf(string_block, loc_index, SampleOf(records), i)
      /\ \A i \in 0..7 : scores[i + 1] <= scores[best_off + 1]
      /\ \A i \in 0..7 : scores[i + 1] = scores[best_off + 1] => best_off <= i
      /\ (\A i \in 0..7 : scores[i + 1] = 0) => best_off = 0

\* slots 2 and 5 tie with the maximum score 1, and slot 2 is returned
C21_Witness ==
    /\ lpc = "done"
    /\ Len(records) = 2
    /\ scores = <<0, 0, 1, 0, 0, 1, 0, 0>>
    /\ best_off = 2

\* every slot scores 0 on a table that has records, and slot 0 is returned
C21_WitnessAllZero ==
    /\ lpc = "done"
    /\ Len(records) = 2
    /\ scores = <<0, 0, 0, 0, 0, 0, 0, 0>>
    /\ best_off = 0

\* the lowest slot of maximal score over a list of sampled records
SlotOfSample(heap, li, sample) ==
    CHOOSE b \in 0..7 :
        /\ \A i \in 0..7 : ScoreOf(heap, li, sample, i) <= ScoreOf(heap, li, sample, b)
        /\ \A i \in 0..(b - 1) :
             ScoreOf(heap, li, sample, i) < ScoreOf(heap, li, sample, b)

\* C23: the returned slot is a function of the heap and of the first
\* min(200, n) records only: it is SlotOfSample of that prefix, so two tables
\* with the same heap that agree on the prefix get the same slot, whatever
\* their later records hold.
C23_OnlySampleMatters ==
    lpc = "done" =>
      best_off = SlotOfSample(string_block, loc_index,
                              SubSeq(records, 1, Min(SampleLimit, Len(records))))

\* a table of 201 records whose last record, had it been scored, would have
\* changed the slot
C23_Witness ==
    /\ lpc = "done"
    /\ Len(records) = SampleLimit + 1
    /\ best_off = 0
    /\ SlotOfSample(string_block, loc_index, records) = 5


\* the scores of all 8 slots over a list of sampled records, added up
TotalOf(heap, li, sample) ==
    LET sc(i) == ScoreOf(heap, li, sample, i)
    IN sc(0) + sc(1) + sc(2) + sc(3) + sc(4) + sc(5) + sc(6) + sc(7)

-----------------------------------------------------------------------------
(* Further properties of parse_description *)

\* what a whole token "$" + word stands for: the generic letter of a
\* recognized $s1..$s3, $o1..$o3, the duration text of $d, "X" otherwise
TokenText(word, ms) ==
    IF word \in {<<115, 49>>, <<111, 49>>} THEN <<88>>
    ELSE IF word \in {<<115, 50>>, <<111, 50>>} THEN <<89>>
    ELSE IF word \in {<<115, 51>>, <<111, 51>>} THEN <<90>>
    ELSE IF word = <<100>>
      THEN (IF ms > 0 THEN FormatSeconds(ms) ELSE <<90>>) \o SecSuffix
    ELSE <<88>>

\* text with every token, "$" followed by its maximal run of word
\* characters, replaced as a whole
RECURSIVE TokensReplaced(_, _)
TokensReplaced(text, ms) ==
    IF text = <<>> THEN <<>>
    ELSE IF text[1] = 36 /\ WordRun(text, 2) > 0
      THEN TokenText(SubSeq(text, 2, 1 + WordRun(text, 2)), ms)
             \o TokensReplaced(SubSeq(text, 2 + WordRun(text, 2), Len(text)), ms)
      ELSE <<Head(text)>> \o TokensReplaced(Tail(text), ms)

\* C24: parse_description replaces each token as a whole: a token that is
\* not one of $s1, $s2, $s3, $o1, $o2, $o3, $d becomes "X" in its entirety,
\* and $d becomes the duration in seconds when duration_ms > 0 and "Z sec"
\* otherwise.
C24_TokensReplacedWhole ==
    dpc = "returned" => dret = Strip(TokensReplaced(desc, duration_ms))


-----------------------------------------------------------------------------
(* The order of the steps of a run of main *)

\* the statement main is at, by its place in main
StepRank(at) ==
    CASE at = "load_spell_icons" -> 1
      [] at = "load_spell_durations" -> 2
      [] at = "load_spell_cast_times" -> 3
      [] at = "load_spell_ranges" -> 4
      [] at = "load_spell" -> 5
      [] at = "detect_locale_offset" -> 6
      [] at = "extract" -> 7
      [] at = "written" -> 8
      [] at = "raised" -> 9

DetectRank(at) ==
    CASE at = "idle" -> 0 [] at = "scan" -> 1 [] at = "done" -> 2

\* a reader's records and heap lie in its file in the order header, records,
\* heap: record k is read from the k-th record_size bytes after the 20 header
\* bytes and the heap from what follows the last record
ReadInFileOrder(f, recs, heap) ==
    LET h == UnpackHeader(Read(f, 0, 20)) IN
    /\ Len(recs) = h.record_count
    /\ \A k \in 1..Len(recs) :
         recs[k] = UnpackRecord(Read(f, 20 + (k - 1) * h.record_size, h.record_size),
                                h.field_count)
    /\ heap = Read(f, 20 + h.record_count * h.record_size, h.string_block_size)

\* the four lookup tables are completely built: each map holds what its
\* builder makes of all the records of its table
LookupsBuilt ==
    LET i == ReadDBC(disk.SpellIcon)
        d == ReadDBC(disk.SpellDuration)
        c == ReadDBC(disk.SpellCastTimes)
        r == ReadDBC(disk.SpellRange)
    IN /\ i.ok /\ d.ok /\ c.ok /\ r.ok
       /\ ReadInFileOrder(disk.SpellIcon, i.records, i.string_block)
       /\ icon_map = IconMapOf(i.records, i.string_block, Len(i.records))
       /\ duration_map = PairMapOf(d.records, Len(d.records))
       /\ cast_time_map = PairMapOf(c.records, Len(c.records))
       /\ range_map = RangeMapOf(r.records, Len(r.records))

\* no row is projected before the lookup tables are built, the primary table
\* is read and the slot is resolved; no table is read twice
ProjectionComesLast ==
    /\ \A i, j \in 1..Len(loaded) : loaded[i] = loaded[j] => i = j
    /\ lpc # "idle" =>
         /\ loaded = <<"SpellIcon", "SpellDuration", "SpellCastTimes", "SpellRange",
                       "Spell">>
         /\ LookupsBuilt
         /\ pc = "loaded"
         /\ ReadInFileOrder(disk.Spell, records, string_block)
    /\ (mpc \in {"extract", "written"} \/ mrow > 0 \/ spells # <<>>) =>
         /\ lpc = "done"
         /\ LOCALE_OFFSET = best_off
         /\ Len(spells) + skipped = mrow
         /\ mrow <= Len(records)

\* a step of a run: main goes on to its next statement or ends with an
\* exception, detection never starts again, and the loop projects the next
\* record
StepsInOrder ==
    /\ StepRank(mpc') = StepRank(mpc) \/ StepRank(mpc') = StepRank(mpc) + 1
          \/ mpc' = "raised"
    /\ mpc = "raised" => mpc' = "raised"
    /\ DetectRank(lpc') = DetectRank(lpc) \/ DetectRank(lpc') = DetectRank(lpc) + 1
    /\ lpc' # lpc => mpc = "detect_locale_offset" /\ mpc' = mpc
    /\ loaded' = loaded \/ (Len(loaded') = Len(loaded) + 1
                             /\ SubSeq(loaded', 1, Len(loaded)) = loaded)
    /\ mrow' = mrow \/ (mrow' = mrow + 1 /\ mpc = "extract")
    /\ icon_map' # icon_map => mpc = "load_spell_icons"
    /\ duration_map' # duration_map => mpc = "load_spell_durations"
    /\ cast_time_map' # cast_time_map => mpc = "load_spell_cast_times"
    /\ range_map' # range_map => mpc = "load_spell_ranges"

=============================================================================
